---------------------------- MODULE Spec2Model ----------------------------
(***************************************************************************)
(* State-commitment engine of masslbs/network-schema (python client):      *)
(*   - the HAMT of src/python/massmarket/hamt.py (Spec),                   *)
(*   - the MMR log of src/python/massmarket_hash_event/mmr/algorithms.py   *)
(*     over the FlatDB of src/python/massmarket/mmr/db.py (SpecMMR),       *)
(*   - the patch-set root, signer recovery and proof verification of       *)
(*     src/python/massmarket/__init__.py (SpecPatch, SpecMMR).             *)
(*                                                                         *)
(* Modelling conventions                                                   *)
(*   - Python objects that are mutated in place (Node) live in a heap      *)
(*     (node id -> node record); an id is a reference.  Nodes that are no  *)
(*     longer referenced are dropped, as reference counting does.          *)
(*   - None is 0; keys, values and node ids are positive.                  *)
(*   - A 64-bit bitmap is the set of its set bit positions (TLC integers   *)
(*     are 32 bits wide): b & (1 << i) # 0 is i \in b.                     *)
(*   - SHA-256 is modelled as an injective function: a digest is the       *)
(*     sequence of tokens that were fed to the hash.  The digest of a KEY  *)
(*     (which drives the trie layout) is a table of DigestBytes-byte       *)
(*     strings, Digest, chosen so that keys collide on some or all trie    *)
(*     levels.  The digest width is scaled down from 32 bytes to           *)
(*     DigestBytes, which scales MAX_DEPTH from 256 // 6 = 42 down to      *)
(*     (8 * DigestBytes) // 6; with 2 bytes, as with 32, the last 4 bits   *)
(*     of a digest are never consumed.                                     *)
(***************************************************************************)
EXTENDS Integers, Sequences, FiniteSets, TLC

None == 0

\* ------------------------------------------------------------ bounds
NumKeys == 3
NumValues == 2
MaxSteps == 4
\* Width of a key digest in bytes (32 for SHA-256).
DigestBytes == 2

Keys == 1..NumKeys
Values == 1..NumValues

\* ------------------------------------------------- hamt.py: constants
BITS_PER_STEP == 6
DigestBits == 8 * DigestBytes
MAX_DEPTH == DigestBits \div BITS_PER_STEP

Pow2(n) == 2 ^ n

\* ------------------------------------------------- hamt.py: HashState
ZeroDigest == [i \in 1..DigestBytes |-> 0]

\* hashlib.sha256(key).digest() for the keys of the model:
\*   key 1 and key 2 agree on every bit that the trie consumes (they differ
\*   in the bits left over after MAX_DEPTH steps, when there are any),
\*   key 3 agrees with key 1 on the first 6 bits only,
\*   every other key has its own first 6 bits.
\* A key that is never inserted; its digest agrees with those of keys 1 and
\* 2 on every bit the trie consumes.
ProbeKey == NumKeys + 1

Digest(key) ==
    CASE key = 1 -> ZeroDigest
      [] key = 2 -> [ZeroDigest EXCEPT
                        ![DigestBytes] = Pow2(DigestBits % BITS_PER_STEP) - 1]
      [] key = 3 -> [ZeroDigest EXCEPT ![2] = 16]
      [] key = ProbeKey ->
             [ZeroDigest EXCEPT
                 ![DigestBytes] = (Pow2(DigestBits % BITS_PER_STEP) - 1) \div 2]
      [] OTHER   -> [ZeroDigest EXCEPT ![1] = (4 * (key - 3)) % 256]

HashState_new(key) ==
    [original_key |-> key, hash_buf |-> Digest(key), consumed |-> 0]

\* The chunk HashState.next returns (python indexes hash_buf from 0).
HashState_chunk(hs) ==
    LET bit_offset == hs.consumed
        byte_offset == bit_offset \div 8
        bit_in_byte == bit_offset % 8
        hi == IF byte_offset < DigestBytes THEN hs.hash_buf[byte_offset + 1] * 256 ELSE 0
        lo == IF byte_offset + 1 < DigestBytes THEN hs.hash_buf[byte_offset + 2] ELSE 0
        next16 == hi + lo
        shift == 16 - BITS_PER_STEP - bit_in_byte
    IN  (next16 \div Pow2(shift)) % Pow2(BITS_PER_STEP)

\* The state HashState.next leaves behind.
HashState_next(hs) == [hs EXCEPT !.consumed = @ + BITS_PER_STEP]

\* for _ in range(n): hs.next()
RECURSIVE HashState_skip(_, _)
HashState_skip(hs, n) ==
    IF n = 0 THEN hs ELSE HashState_skip(HashState_next(hs), n - 1)

\* ------------------------------------------------- hamt.py: Entry, Node
NoHash == <<>>
SomeHash(d) == <<d>>

Entry(key, value, node) == [key |-> key, value |-> value, node |-> node]

\* Node(): bitmap 0, no entries, no memoised hash.
NewNode == [bitmap |-> {}, entries |-> <<>>, hash |-> NoHash]

\* The id of a freshly constructed object: the least id not in use.
Alloc(h) ==
    CHOOSE i \in 1..(Cardinality(DOMAIN h) + 1) :
        /\ i \notin DOMAIN h
        /\ \A j \in 1..(i - 1) : j \in DOMAIN h

count_ones(bitmap, below) == Cardinality({b \in bitmap : b < below})

\* list.insert(pos, e) and list.pop(pos), pos counted from 0.
ListInsert(s, pos, e) == SubSeq(s, 1, pos) \o <<e>> \o SubSeq(s, pos + 1, Len(s))
ListPop(s, pos) == SubSeq(s, 1, pos) \o SubSeq(s, pos + 2, Len(s))

\* The position of the first entry with the key, from 0; -1 when there is none.
RECURSIVE FirstWithKey(_, _, _)
FirstWithKey(entries, key, i) ==
    IF i > Len(entries) THEN -1
    ELSE IF entries[i].key = key THEN i - 1
    ELSE FirstWithKey(entries, key, i + 1)

\* Results of Node.insert and Node.delete: the heap they leave, the boolean
\* they return, and whether they raised ValueError instead of returning.
Result(h, ret) == [heap |-> h, ret |-> ret, raised |-> FALSE]
Raised(h) == [heap |-> h, ret |-> FALSE, raised |-> TRUE]

Node_insert_fallback(h, n, key, value) ==
    LET i == FirstWithKey(h[n].entries, key, 1)
    IN  IF i >= 0
        THEN Result([h EXCEPT ![n].entries[i + 1].value = value], FALSE)
        ELSE Result([h EXCEPT ![n].entries = Append(@, Entry(key, value, None)),
                              ![n].hash = NoHash], TRUE)

RECURSIVE Node_insert(_, _, _, _, _)
Node_insert(h, n, key, value, hs) ==
    IF hs.consumed >= MAX_DEPTH * BITS_PER_STEP
    THEN Node_insert_fallback(h, n, key, value)
    ELSE
    LET idx == HashState_chunk(hs)
        hs1 == HashState_next(hs)
        pos == count_ones(h[n].bitmap, idx)
    IN  IF idx >= 64 THEN Raised(h)
        ELSE IF idx \notin h[n].bitmap
        THEN Result([h EXCEPT ![n].bitmap = @ \cup {idx},
                              ![n].entries = ListInsert(@, pos, Entry(key, value, None)),
                              ![n].hash = NoHash], TRUE)
        ELSE
        LET entry == h[n].entries[pos + 1]
        IN  IF entry.node = None
            THEN IF entry.key = key
                 THEN Result([h EXCEPT ![n].entries[pos + 1].value = value,
                                       ![n].hash = NoHash], FALSE)
                 ELSE
                 LET branch == Alloc(h)
                     h0 == (branch :> NewNode) @@ h
                     levels == hs1.consumed \div BITS_PER_STEP
                     old_hs == HashState_skip(HashState_new(entry.key), levels)
                     r1 == Node_insert(h0, branch, entry.key, entry.value, old_hs)
                     new_hs == HashState_skip(HashState_new(key), levels)
                     r2 == Node_insert(r1.heap, branch, key, value, new_hs)
                 IN  IF r1.raised THEN Raised(r1.heap)
                     ELSE IF r2.raised THEN Raised(r2.heap)
                     ELSE Result([r2.heap EXCEPT
                                     ![n].entries[pos + 1] = Entry(None, None, branch),
                                     ![n].hash = NoHash], TRUE)
            ELSE
            LET r == Node_insert(h, entry.node, key, value, hs1)
            IN  IF r.raised THEN r
                ELSE IF r.ret THEN Result([r.heap EXCEPT ![n].hash = NoHash], TRUE)
                ELSE Result(r.heap, FALSE)


\* What Trie.get hands back: a bare value (or None), or the (value, found)
\* tuple that find_fallback builds.
Plain(v) == <<v>>
Tuple(v, found) == <<v, found>>

\* The position of the first leaf entry with the key, from 0; -1 when none.
RECURSIVE FirstLeafWithKey(_, _, _)
FirstLeafWithKey(entries, key, i) ==
    IF i > Len(entries) THEN -1
    ELSE IF entries[i].node = None /\ entries[i].key = key THEN i - 1
    ELSE FirstLeafWithKey(entries, key, i + 1)

RECURSIVE Node_find_fallback(_, _, _)
RECURSIVE find_fallback_from(_, _, _, _)
\* The loop of find_fallback over entries[i..], in order.
find_fallback_from(h, entries, key, i) ==
    IF i > Len(entries) THEN Tuple(None, FALSE)
    ELSE LET e == entries[i]
         IN  IF e.node = None /\ e.key = key THEN Tuple(e.value, TRUE)
             ELSE IF e.node # None
             THEN LET sub == Node_find_fallback(h, e.node, key)
                  IN  IF sub[2] THEN Tuple(sub[1], TRUE)
                      ELSE find_fallback_from(h, entries, key, i + 1)
             ELSE find_fallback_from(h, entries, key, i + 1)

Node_find_fallback(h, n, key) == find_fallback_from(h, h[n].entries, key, 1)

\* The while loop of Node.find from current_node with hash state hs.
RECURSIVE find_loop(_, _, _, _)
find_loop(h, current_node, key, hs) ==
    IF current_node = None THEN Plain(None)
    ELSE IF hs.consumed >= MAX_DEPTH * BITS_PER_STEP
    THEN Node_find_fallback(h, current_node, key)
    ELSE
    LET idx == HashState_chunk(hs)
        pos == count_ones(h[current_node].bitmap, idx)
    IN  IF idx \notin h[current_node].bitmap THEN Plain(None)
        ELSE IF pos >= Len(h[current_node].entries) THEN Plain(None)
        ELSE LET entry == h[current_node].entries[pos + 1]
             IN  IF entry.node = None
                 THEN IF entry.key = key THEN Plain(entry.value) ELSE Plain(None)
                 ELSE find_loop(h, entry.node, key, HashState_next(hs))

Node_find(h, n, key) == find_loop(h, n, key, HashState_new(key))

Node_delete_fallback(h, n, key) ==
    LET i == FirstLeafWithKey(h[n].entries, key, 1)
    IN  IF i >= 0
        THEN Result([h EXCEPT ![n].entries = ListPop(@, i), ![n].hash = NoHash], TRUE)
        ELSE Result(h, FALSE)

\* The variant that never inlines: a child left with a single leaf stays.
RECURSIVE Node_delete_no_inline(_, _, _, _)
Node_delete_no_inline(h, n, key, hs) ==
    IF hs.consumed >= MAX_DEPTH * BITS_PER_STEP
    THEN Node_delete_fallback(h, n, key)
    ELSE
    LET idx == HashState_chunk(hs)
        hs1 == HashState_next(hs)
        pos == count_ones(h[n].bitmap, idx)
    IN  IF idx \notin h[n].bitmap THEN Result(h, FALSE)
        ELSE IF pos >= Len(h[n].entries) THEN Raised(h)
        ELSE
        LET entry == h[n].entries[pos + 1]
        IN  IF entry.node = None
            THEN IF entry.key # key THEN Result(h, FALSE)
                 ELSE Result([h EXCEPT ![n].hash = NoHash,
                                       ![n].bitmap = @ \ {idx},
                                       ![n].entries = ListPop(@, pos)], TRUE)
            ELSE
            LET r == Node_delete_no_inline(h, entry.node, key, hs1)
                child == r.heap[entry.node]
            IN  IF r.raised THEN r
                ELSE IF ~r.ret THEN Result(r.heap, FALSE)
                ELSE IF Len(child.entries) = 0
                THEN Result([r.heap EXCEPT ![n].bitmap = @ \ {idx},
                                           ![n].entries = ListPop(@, pos),
                                           ![n].hash = NoHash], TRUE)
                ELSE Result([r.heap EXCEPT ![n].hash = NoHash], TRUE)

RECURSIVE Node_delete(_, _, _, _)
Node_delete(h, n, key, hs) ==
    IF hs.consumed >= MAX_DEPTH * BITS_PER_STEP
    THEN Node_delete_fallback(h, n, key)
    ELSE
    LET idx == HashState_chunk(hs)
        hs1 == HashState_next(hs)
        pos == count_ones(h[n].bitmap, idx)
    IN  IF idx \notin h[n].bitmap THEN Result(h, FALSE)
        ELSE IF pos >= Len(h[n].entries) THEN Raised(h)
        ELSE
        LET entry == h[n].entries[pos + 1]
        IN  IF entry.node = None
            THEN IF entry.key # key THEN Result(h, FALSE)
                 ELSE Result([h EXCEPT ![n].hash = NoHash,
                                       ![n].bitmap = @ \ {idx},
                                       ![n].entries = ListPop(@, pos)], TRUE)
            ELSE
            LET r == Node_delete(h, entry.node, key, hs1)
                child == r.heap[entry.node]
            IN  IF r.raised THEN r
                ELSE IF ~r.ret THEN Result(r.heap, FALSE)
                ELSE IF Len(child.entries) = 0
                THEN Result([r.heap EXCEPT ![n].bitmap = @ \ {idx},
                                           ![n].entries = ListPop(@, pos),
                                           ![n].hash = NoHash], TRUE)
                ELSE IF Len(child.entries) = 1 /\ child.entries[1].node = None
                THEN Result([r.heap EXCEPT
                                ![n].entries[pos + 1] =
                                    Entry(child.entries[1].key, child.entries[1].value, None),
                                ![n].hash = NoHash], TRUE)
                ELSE Result([r.heap EXCEPT ![n].hash = NoHash], TRUE)

\* ------------------------------------------------- hamt.py: Node.hash
\* What is fed to the hash: h.update(e.key), h.update(cbor_encode(e.value)),
\* h.update(e.node.hash()).
KeyBytes(key) == <<0, key>>
ValueBytes(value) == <<1, value>>
HashBytes(digest) == <<2, digest>>

\* hashlib.sha256 over the stream of updates: injective, the stream itself.
sha256(stream) == stream

RECURSIVE Node_hash(_, _)
RECURSIVE hash_entries(_, _, _, _)
\* The loop of Node.hash over entries[i..]: the heap (children memoise their
\* hashes on the way) and the stream fed to the hash so far.
hash_entries(h, entries, i, stream) ==
    IF i > Len(entries) THEN [heap |-> h, stream |-> stream]
    ELSE LET e == entries[i]
         IN  IF e.node = None
             THEN hash_entries(h, entries, i + 1,
                               stream \o <<KeyBytes(e.key), ValueBytes(e.value)>>)
             ELSE LET sub == Node_hash(h, e.node)
                  IN  hash_entries(sub.heap, entries, i + 1,
                                   stream \o <<HashBytes(sub.digest)>>)

\* The variant that memoises the digest of no entries.
Node_hash_miscached(h, n) ==
    IF h[n].hash # NoHash THEN [heap |-> h, digest |-> h[n].hash[1]]
    ELSE LET fed == hash_entries(h, h[n].entries, 1, <<>>)
             d == sha256(fed.stream)
         IN  [heap |-> [fed.heap EXCEPT ![n].hash = SomeHash(sha256(<<>>))],
              digest |-> d]

Node_hash(h, n) ==
    IF h[n].hash # NoHash THEN [heap |-> h, digest |-> h[n].hash[1]]
    ELSE LET fed == hash_entries(h, h[n].entries, 1, <<>>)
             d == sha256(fed.stream)
         IN  [heap |-> [fed.heap EXCEPT ![n].hash = SomeHash(d)], digest |-> d]

\* ------------------------------------------------- hamt.py: Node.all
\* The (key, value) pairs Node.all hands to a callback that always returns
\* True, in calling order.
RECURSIVE Node_all(_, _)
RECURSIVE all_entries(_, _, _)
all_entries(h, entries, i) ==
    IF i > Len(entries) THEN <<>>
    ELSE LET e == entries[i]
         IN  (IF e.node = None THEN << <<e.key, e.value>> >> ELSE Node_all(h, e.node))
             \o all_entries(h, entries, i + 1)

Node_all(h, n) == all_entries(h, h[n].entries, 1)

\* Node.all with a callback fn that records its arguments and returns False
\* in its stop-th call (never, when stop is 0): calls is the list of calls
\* made so far, ret the value Node.all returns.
RECURSIVE Node_all_fn(_, _, _, _)

\* The variant that goes on after a child's all() returned False.
RECURSIVE all_fn_entries_deaf(_, _, _, _, _)
all_fn_entries_deaf(h, entries, i, calls, stop) ==
    IF i > Len(entries) THEN [calls |-> calls, ret |-> TRUE]
    ELSE LET e == entries[i]
         IN  IF e.node = None
             THEN LET c == Append(calls, <<e.key, e.value>>)
                  IN  IF Len(c) = stop THEN [calls |-> c, ret |-> FALSE]
                      ELSE all_fn_entries_deaf(h, entries, i + 1, c, stop)
             ELSE LET r == Node_all_fn(h, e.node, calls, stop)
                  IN  all_fn_entries_deaf(h, entries, i + 1, r.calls, stop)

RECURSIVE all_fn_entries(_, _, _, _, _)
all_fn_entries(h, entries, i, calls, stop) ==
    IF i > Len(entries) THEN [calls |-> calls, ret |-> TRUE]
    ELSE LET e == entries[i]
         IN  IF e.node = None
             THEN LET c == Append(calls, <<e.key, e.value>>)
                  IN  IF Len(c) = stop THEN [calls |-> c, ret |-> FALSE]
                      ELSE all_fn_entries(h, entries, i + 1, c, stop)
             ELSE LET r == Node_all_fn(h, e.node, calls, stop)
                  IN  IF ~r.ret THEN r
                      ELSE all_fn_entries(h, entries, i + 1, r.calls, stop)

Node_all_fn(h, n, calls, stop) == all_fn_entries(h, h[n].entries, 1, calls, stop)

\* ------------------------------------------------- hamt.py: deep_copy_node
\* A variant of deep_copy_node: a shallow copy, the new node's entries refer to
\* the children of the original.
deep_copy_node_shallow(h, node) ==
    IF node = None THEN [heap |-> h, node |-> None]
    ELSE LET new_node == Alloc(h)
         IN  [heap |-> (new_node :> [h[node] EXCEPT !.hash = NoHash]) @@ h,
              node |-> new_node]

RECURSIVE deep_copy_node(_, _)
RECURSIVE copy_entries(_, _, _, _)
\* The loop of deep_copy_node over node.entries[i..], appending to new_node.
copy_entries(h, entries, i, new_node) ==
    IF i > Len(entries) THEN h
    ELSE LET entry == entries[i]
             sub == IF entry.node # None THEN deep_copy_node(h, entry.node)
                    ELSE [heap |-> h, node |-> None]
             new_entry == Entry(entry.key, entry.value, sub.node)
         IN  copy_entries([sub.heap EXCEPT ![new_node].entries = Append(@, new_entry)],
                          entries, i + 1, new_node)

deep_copy_node(h, node) ==
    IF node = None THEN [heap |-> h, node |-> None]
    ELSE LET new_node == Alloc(h)
             h0 == (new_node :> [bitmap |-> h[node].bitmap, entries |-> <<>>,
                                 hash |-> NoHash]) @@ h
         IN  [heap |-> copy_entries(h0, h[node].entries, 1, new_node),
              node |-> new_node]

\* ------------------------------------------------- hamt.py: Trie
\* Keys of the model are already bytes: encode_key passes bytes through.
encode_key(k) == k

\* Trie.get
Trie_get(h, trie, key) ==
    IF trie.root = None THEN Plain(None)
    ELSE Node_find(h, trie.root, encode_key(key))

\* Trie.all(fn) with the callback of Node_all_fn: the calls made to fn.
Trie_all_fn(h, trie, stop) ==
    IF trie.root = None THEN <<>> ELSE Node_all_fn(h, trie.root, <<>>, stop).calls

\* Trie.has: self.get(key) is not None.
Trie_has(h, trie, key) == Trie_get(h, trie, key) # Plain(None)

\* Trie.hash: the value returned (the heap it leaves is Node_hash(..).heap).
EmptyHash == sha256(<<>>)

Trie_hash(h, trie) ==
    IF trie.root = None THEN EmptyHash ELSE Node_hash(h, trie.root).digest

\* Trie.all with a callback that collects and always returns True.
Trie_all(h, trie) == IF trie.root = None THEN <<>> ELSE Node_all(h, trie.root)

\* The nodes reachable from node n.
RECURSIVE NodesUnder(_, _)
NodesUnder(h, n) ==
    IF n = None THEN {}
    ELSE {n} \cup UNION {NodesUnder(h, h[n].entries[i].node) : i \in 1..Len(h[n].entries)}

\* Reference counting: what no trie reaches any more is gone.
Collect(h, ts) ==
    LET keep == UNION {NodesUnder(h, ts[w].root) : w \in DOMAIN ts}
    IN  [n \in keep |-> h[n]]

\* A Trie object: its root reference and its size field.
\* Trie.new(): cls(root=Node()), given the heap returns the heap and the trie.
Trie_new(h) ==
    LET root == Alloc(h)
    IN  [heap |-> (root :> NewNode) @@ h, trie |-> [root |-> root, size |-> 0]]

\* A variant of Trie.insert: size grows on every insert, overwrites included.
Trie_insert_always_counts(h, trie, key, value) ==
    LET root == IF trie.root = None THEN Alloc(h) ELSE trie.root
        h0 == IF trie.root = None THEN (root :> NewNode) @@ h ELSE h
        k == encode_key(key)
        r == Node_insert(h0, root, k, value, HashState_new(k))
    IN  [heap |-> r.heap,
         trie |-> [root |-> root, size |-> trie.size + 1],
         raised |-> r.raised]

\* Trie.insert: the heap and the trie it leaves; raised when Node.insert raised.
Trie_insert(h, trie, key, value) ==
    LET root == IF trie.root = None THEN Alloc(h) ELSE trie.root
        h0 == IF trie.root = None THEN (root :> NewNode) @@ h ELSE h
        k == encode_key(key)
        r == Node_insert(h0, root, k, value, HashState_new(k))
    IN  [heap |-> r.heap,
         trie |-> [root |-> root,
                   size |-> IF ~r.raised /\ r.ret THEN trie.size + 1 ELSE trie.size],
         raised |-> r.raised]

\* Trie.delete
Trie_delete(h, trie, key) ==
    IF trie.root = None THEN [heap |-> h, trie |-> trie, raised |-> FALSE]
    ELSE LET k == encode_key(key)
             r == Node_delete(h, trie.root, k, HashState_new(k))
         IN  [heap |-> r.heap,
              trie |-> [trie EXCEPT !.size = IF ~r.raised /\ r.ret THEN @ - 1 ELSE @],
              raised |-> r.raised]

\* Trie.copy: Trie.new(), then root and size are overwritten.
Trie_copy(h, trie) ==
    LET fresh == Trie_new(h)
        c == deep_copy_node(fresh.heap, trie.root)
    IN  [heap |-> c.heap, trie |-> [root |-> c.node, size |-> trie.size]]

\* ------------------------------------------------- hamt.py: to_array, from_array
\* The array form: a node is <<bitmap, <<entry, ...>>>>, an entry is
\* <<key, value, node array>>; None in the third place is NoneArr.
NoneArr == <<>>

RECURSIVE Node_to_array(_, _)
Entry_to_array(h, e) ==
    IF e.node # None THEN <<e.key, e.value, Node_to_array(h, e.node)>>
    ELSE <<e.key, e.value, NoneArr>>

Node_to_array(h, n) ==
    <<h[n].bitmap, [i \in 1 .. Len(h[n].entries) |-> Entry_to_array(h, h[n].entries[i])]>>

RECURSIVE Node_from_array(_, _)
Entry_from_array(h, arr) ==
    LET sub == IF arr[3] # NoneArr THEN Node_from_array(h, arr[3])
               ELSE [heap |-> h, node |-> None]
    IN  [heap |-> sub.heap, entry |-> Entry(arr[1], arr[2], sub.node)]

\* The loop of Node.from_array over entries_arr[i..], appending to node.
RECURSIVE from_array_entries(_, _, _, _)
from_array_entries(h, entries_arr, i, node) ==
    IF i > Len(entries_arr) THEN h
    ELSE LET e == Entry_from_array(h, entries_arr[i])
         IN  from_array_entries([e.heap EXCEPT ![node].entries = Append(@, e.entry)],
                                entries_arr, i + 1, node)

\* Node.from_array (an entries list that is None is not produced by
\* to_array and has no form here).
Node_from_array(h, arr) ==
    IF arr = NoneArr THEN [heap |-> h, node |-> None]
    ELSE LET node == Alloc(h)
             h0 == (node :> [NewNode EXCEPT !.bitmap = arr[1]]) @@ h
         IN  [heap |-> from_array_entries(h0, arr[2], 1, node), node |-> node]

\* Trie.to_cbor_array
Trie_to_cbor_array(h, trie) == Node_to_array(h, trie.root)

RECURSIVE count_entries(_, _)
\* The variant that counts a child node as one entry.
count_entries_flat(h, n) == Len(h[n].entries)

\* count_entries of Trie._recalculate_size
RECURSIVE count_entries_from(_, _, _)
count_entries_from(h, entries, i) ==
    IF i > Len(entries) THEN 0
    ELSE (IF entries[i].node = None THEN 1 ELSE count_entries(h, entries[i].node))
         + count_entries_from(h, entries, i + 1)

count_entries(h, n) == IF n = None THEN 0 ELSE count_entries_from(h, h[n].entries, 1)

\* Trie.from_cbor_array: the heap with the new nodes and the new trie.
Trie_from_cbor_array(h, data) ==
    LET r == Node_from_array(h, data)
    IN  [heap |-> r.heap,
         trie |-> [root |-> r.node, size |-> count_entries(r.heap, r.node)]]

\* ------------------------------------------------- mmr/algorithms.py
\* Binary primitives.  int.bit_length(), int.bit_count().
RECURSIVE bit_length(_)
bit_length(x) == IF x = 0 THEN 0 ELSE 1 + bit_length(x \div 2)

RECURSIVE bit_count(_)
bit_count(x) == IF x = 0 THEN 0 ELSE (x % 2) + bit_count(x \div 2)

most_sig_bit(pos) == Pow2(bit_length(pos) - 1)

all_ones(pos) ==
    LET imsb == bit_length(pos) - 1
        mask == Pow2(imsb + 1) - 1
    IN  pos = mask

log2floor(x) == bit_length(x) - 1

\* The while loop of index_height on pos.
RECURSIVE index_height_loop(_)
index_height_loop(pos) ==
    IF all_ones(pos) THEN pos ELSE index_height_loop(pos - (most_sig_bit(pos) - 1))

index_height(i) == bit_length(index_height_loop(i + 1)) - 1

\* The while loop of peaks: s nodes left, the last peak found at peak - 1.
RECURSIVE peaks_loop(_, _, _)
peaks_loop(s, peak, found) ==
    IF s = 0 THEN found
    ELSE LET highest_size == Pow2(log2floor(s + 1)) - 1
             peak1 == peak + highest_size
         IN  peaks_loop(s - highest_size, peak1, Append(found, peak1 - 1))

peaks(i) == peaks_loop(i + 1, 0, <<>>)

\* The while loop of leaf_count.
RECURSIVE leaf_count_loop(_, _, _)
leaf_count_loop(s, peaksize, peakmap) ==
    IF peaksize > 0
    THEN IF s >= peaksize
         THEN leaf_count_loop(s - peaksize, peaksize \div 2, 2 * peakmap + 1)
         ELSE leaf_count_loop(s, peaksize \div 2, 2 * peakmap)
    ELSE peakmap

leaf_count(i) == leaf_count_loop(i + 1, Pow2(bit_length(i + 1)) - 1, 0)

\* The while loop of mmr_index.
RECURSIVE mmr_index_loop(_, _)
mmr_index_loop(e, sum) ==
    IF e > 0
    THEN LET h == bit_length(e)
         IN  mmr_index_loop(e - Pow2(h - 1), sum + Pow2(h) - 1)
    ELSE sum

mmr_index(e) == mmr_index_loop(e, 0)

\* The variant that takes every node for a left child.
parent_of_left(i) == i + 2 * Pow2(index_height(i))

parent(i) ==
    LET g == index_height(i)
    IN  IF index_height(i + 1) > g THEN i + 1 ELSE i + 2 * Pow2(g)

\* The while loop of complete_mmr.
RECURSIVE complete_mmr_loop(_, _, _)
complete_mmr_loop(i, h0, h1) ==
    IF h0 < h1 THEN complete_mmr_loop(i + 1, h1, index_height(i + 2)) ELSE i

complete_mmr(i) == complete_mmr_loop(i, index_height(i), index_height(i + 1))

\* The variant that counts every bit of e.
accumulator_index_unmasked(e, g) == bit_count(e) - 1

\* e & ~((1 << g) - 1) clears the g low bits of e.
accumulator_index(e, g) == bit_count(e - (e % Pow2(g))) - 1

\* The variant that hashes the two children as a set.
hash_pospair64_unordered(pos, a, b) == <<pos, {a, b}>>

\* SHA-256 over pos (8 bytes) || a || b: injective, the triple itself.  Leaf
\* values are tuples of another length.
hash_pospair64(pos, a, b) == <<pos, a, b>>

\* The variant that writes over the last slot once the list has three items.
FlatDB_append_in_place(store, v) ==
    IF Len(store) >= 3
    THEN [store |-> [store EXCEPT ![Len(store)] = v], ret |-> Len(store)]
    ELSE [store |-> Append(store, v), ret |-> Len(store) + 1]

\* FlatDB (mmr/db.py): store is the list; append returns the new length.
FlatDB_append(store, v) == [store |-> Append(store, v), ret |-> Len(store) + 1]

\* list[i] of python: a negative index counts from the end; out of range
\* raises IndexError.
InRange(list, i) == i < Len(list) /\ i >= 0 - Len(list)

Index(list, i) == IF i >= 0 THEN list[i + 1] ELSE list[Len(list) + i + 1]

FlatDB_get(store, i) == Index(store, i)

\* The variant that hashes the children right before left.
RECURSIVE add_leaf_hash_loop_swapped(_, _, _)
add_leaf_hash_loop_swapped(store, i, g) ==
    IF index_height(i) > g
    THEN LET left == FlatDB_get(store, i - 2 * Pow2(g))
             right == FlatDB_get(store, i - 1)
             a == FlatDB_append(store, hash_pospair64(i + 1, right, left))
         IN  add_leaf_hash_loop_swapped(a.store, a.ret, g + 1)
    ELSE [store |-> store, ret |-> i]

\* The while loop of add_leaf_hash.
RECURSIVE add_leaf_hash_loop(_, _, _)
add_leaf_hash_loop(store, i, g) ==
    IF index_height(i) > g
    THEN LET left == FlatDB_get(store, i - 2 * Pow2(g))
             right == FlatDB_get(store, i - 1)
             a == FlatDB_append(store, hash_pospair64(i + 1, left, right))
         IN  add_leaf_hash_loop(a.store, a.ret, g + 1)
    ELSE [store |-> store, ret |-> i]

add_leaf_hash(store, f) ==
    LET a == FlatDB_append(store, f)
    IN  add_leaf_hash_loop(a.store, a.ret, 0)

\* The loop of inclusion_proof_path.
RECURSIVE inclusion_proof_path_loop(_, _, _, _)
inclusion_proof_path_loop(i, c, g, path) ==
    LET siblingoffset == 2 * Pow2(g)
        right == index_height(i + 1) > g
        isibling == IF right THEN i - siblingoffset + 1 ELSE i + siblingoffset - 1
        i1 == IF right THEN i + 1 ELSE i + siblingoffset
    IN  IF isibling > c THEN path
        ELSE inclusion_proof_path_loop(i1, c, g + 1, Append(path, isibling))

inclusion_proof_path(i, c) == inclusion_proof_path_loop(i, c, index_height(i), <<>>)

\* The variant that hashes the parent's index, not its position.
RECURSIVE included_root_loop_index(_, _, _, _, _)
included_root_loop_index(i, root, g, proof, k) ==
    IF k > Len(proof) THEN root
    ELSE LET sibling == proof[k]
         IN  IF index_height(i + 1) > g
             THEN included_root_loop_index(i + 1, hash_pospair64(i + 1, sibling, root),
                                           g + 1, proof, k + 1)
             ELSE LET i1 == i + 2 * Pow2(g)
                  IN  included_root_loop_index(i1, hash_pospair64(i1, root, sibling),
                                               g + 1, proof, k + 1)

\* The for loop of included_root over proof[k..].
RECURSIVE included_root_loop(_, _, _, _, _)
included_root_loop(i, root, g, proof, k) ==
    IF k > Len(proof) THEN root
    ELSE LET sibling == proof[k]
         IN  IF index_height(i + 1) > g
             THEN included_root_loop(i + 1, hash_pospair64(i + 2, sibling, root),
                                     g + 1, proof, k + 1)
             ELSE LET i1 == i + 2 * Pow2(g)
                  IN  included_root_loop(i1, hash_pospair64(i1 + 1, root, sibling),
                                         g + 1, proof, k + 1)

included_root(i, nodehash, proof) ==
    included_root_loop(i, nodehash, index_height(i), proof, 1)

\* The for loop of verify_inclusion_path over proof[k..] (iproof = k - 1).
RECURSIVE verify_inclusion_path_loop(_, _, _, _, _, _)
verify_inclusion_path_loop(i, elementhash, g, proof, root, k) ==
    IF k > Len(proof) THEN <<FALSE, Len(proof)>>
    ELSE LET pathitem == proof[k]
             right == index_height(i + 1) > g
             i1 == IF right THEN i + 1 ELSE i + 2 * Pow2(g)
             e1 == IF right THEN hash_pospair64(i1 + 1, pathitem, elementhash)
                   ELSE hash_pospair64(i1 + 1, elementhash, pathitem)
         IN  IF e1 = root THEN <<TRUE, k>>
             ELSE verify_inclusion_path_loop(i1, e1, g + 1, proof, root, k + 1)

\* The variant without the shortcut for an empty proof.
verify_inclusion_path_loop_only(i, nodehash, proof, root) ==
    verify_inclusion_path_loop(i, nodehash, index_height(i), proof, root, 1)

verify_inclusion_path(i, nodehash, proof, root) ==
    IF Len(proof) = 0 /\ nodehash = root THEN <<TRUE, 0>>
    ELSE verify_inclusion_path_loop(i, nodehash, index_height(i), proof, root, 1)

consistency_proof_paths(ifrom, ito) ==
    LET apeaks == peaks(ifrom)
    IN  [k \in 1..Len(apeaks) |-> inclusion_proof_path(apeaks[k], ito)]

\* The variant that keeps a root equal to the one before it.
RECURSIVE consistent_roots_loop_keep(_, _, _, _, _)
consistent_roots_loop_keep(frompeaks, accumulatorfrom, proofs, k, roots) ==
    IF k > Len(accumulatorfrom) THEN roots
    ELSE LET root == included_root(frompeaks[k], accumulatorfrom[k], proofs[k])
         IN  consistent_roots_loop_keep(frompeaks, accumulatorfrom, proofs, k + 1,
                                        Append(roots, root))

\* The for loop of consistent_roots from index k (python i = k - 1).
RECURSIVE consistent_roots_loop(_, _, _, _, _)
consistent_roots_loop(frompeaks, accumulatorfrom, proofs, k, roots) ==
    IF k > Len(accumulatorfrom) THEN roots
    ELSE LET root == included_root(frompeaks[k], accumulatorfrom[k], proofs[k])
         IN  IF Len(roots) > 0 /\ roots[Len(roots)] = root
             THEN consistent_roots_loop(frompeaks, accumulatorfrom, proofs, k + 1, roots)
             ELSE consistent_roots_loop(frompeaks, accumulatorfrom, proofs, k + 1,
                                        Append(roots, root))

\* consistent_roots: the roots, or raised (ValueError) on a length mismatch.
consistent_roots(ifrom, accumulatorfrom, proofs) ==
    LET frompeaks == peaks(ifrom)
    IN  IF Len(frompeaks) # Len(accumulatorfrom) \/ Len(frompeaks) # Len(proofs)
        THEN [raised |-> TRUE, roots |-> <<>>]
        ELSE [raised |-> FALSE,
              roots |-> consistent_roots_loop(frompeaks, accumulatorfrom, proofs, 1, <<>>)]

\* The for loop of verify_consistent_roots over proven[k..], with its ito.
\* "IndexError" when accumulatorto[ito] is out of range.
RECURSIVE verify_consistent_roots_loop(_, _, _, _)
verify_consistent_roots_loop(proven, accumulatorto, k, ito) ==
    IF k > Len(proven) THEN "True"
    ELSE IF ito >= Len(accumulatorto) THEN "IndexError"
    ELSE IF accumulatorto[ito + 1] = proven[k]
    THEN verify_consistent_roots_loop(proven, accumulatorto, k + 1, ito)
    ELSE IF ito + 1 >= Len(accumulatorto) THEN "False"
    ELSE IF accumulatorto[ito + 2] # proven[k] THEN "False"
    ELSE verify_consistent_roots_loop(proven, accumulatorto, k + 1, ito + 1)

\* verify_consistent_roots: "True", "False", or the exception it raised.
verify_consistent_roots(ifrom, accumulatorfrom, accumulatorto, fromproofs) ==
    LET proven == consistent_roots(ifrom, accumulatorfrom, fromproofs)
    IN  IF proven.raised THEN "ValueError"
        ELSE verify_consistent_roots_loop(proven.roots, accumulatorto, 1, 0)

\* inclusion_proof, consistency_proof: the node values along the paths.
inclusion_proof(store, i, ix) ==
    LET path == inclusion_proof_path(i, ix)
    IN  [k \in 1..Len(path) |-> FlatDB_get(store, path[k])]

consistency_proof(store, ifrom, ito) ==
    LET paths == consistency_proof_paths(ifrom, ito)
    IN  [k \in 1..Len(paths) |->
            [j \in 1..Len(paths[k]) |-> FlatDB_get(store, paths[k][j])]]

\* [db.get(ip) for ip in peaks(ix)]
accumulator(store, ix) ==
    LET p == peaks(ix) IN [k \in 1..Len(p) |-> FlatDB_get(store, p[k])]

\* ------------------------------------------------- massmarket/__init__.py
\* cbor_encode of a patch: a non-empty byte string, one per patch content.
cbor_encode(patch_data) == <<patch_data>>

\* positions = [add_leaf_hash(tree, patch) for patch in hashed_patches]
RECURSIVE add_leaves(_, _, _, _)
add_leaves(store, hashed, k, positions) ==
    IF k > Len(hashed) THEN [store |-> store, positions |-> positions]
    ELSE LET a == add_leaf_hash(store, hashed[k])
         IN  add_leaves(a.store, hashed, k + 1, Append(positions, a.ret))

\* while next_power_2 < len(hashed_patches): next_power_2 *= 2
RECURSIVE next_power_2_loop(_, _)
next_power_2_loop(next_power_2, len) ==
    IF next_power_2 < len THEN next_power_2_loop(next_power_2 * 2, len) ELSE next_power_2

\* The variant that builds the tree from the unpadded leaf list.
get_root_hash_of_patches_unpadded(patches) ==
    LET hashed == [k \in 1..Len(patches) |-> sha256(cbor_encode(patches[k]))]
        hashed_patches == IF Len(hashed) = 0 THEN <<sha256(<<>>)>> ELSE hashed
        t == add_leaves(<<>>, hashed_patches, 1, <<>>)
    IN  [patches |-> patches, hashed_patches |-> hashed_patches,
         tree |-> t.store, positions |-> t.positions,
         ret |-> FlatDB_get(t.store, t.positions[Len(t.positions)] - 1)]

\* get_root_hash_of_patches: ret is the value returned; patches is the
\* argument list after the call (the padding goes to hashed_patches, a new
\* list); the locals are kept for inspection.
get_root_hash_of_patches(patches) ==
    LET hashed == [k \in 1..Len(patches) |-> sha256(cbor_encode(patches[k]))]
        next_power_2 == next_power_2_loop(1, Len(hashed))
        zero_hash == sha256(<<>>)
        hashed_patches == [k \in 1..next_power_2 |->
                              IF k <= Len(hashed) THEN hashed[k] ELSE zero_hash]
        t == add_leaves(<<>>, hashed_patches, 1, <<>>)
    IN  [patches |-> patches, hashed_patches |-> hashed_patches,
         tree |-> t.store, positions |-> t.positions,
         ret |-> FlatDB_get(t.store, t.positions[Len(t.positions)] - 1)]

\* cbor_encode(ps.header.to_cbor_dict())
header_bytes(header) == <<header.key_card_nonce, header.root_hash>>

\* encode_defunct: the EIP-191 envelope of the message.
encode_defunct(bytes) == <<"personal_sign", bytes>>

\* recover_message: the address whose key made the signature over this
\* message; over any other message some unrelated address; a malformed
\* signature raises.
recover_message(message, signature) ==
    IF ~signature.wellformed THEN [raised |-> "BadSignature", ret |-> "None"]
    ELSE IF signature.message = message THEN [raised |-> "None", ret |-> signature.signer]
    ELSE [raised |-> "None", ret |-> "unrelated"]

\* The variant without the assert statement.
get_signer_of_patchset_unchecked(ps) ==
    LET r == get_root_hash_of_patches(ps.patches)
        after == [ps EXCEPT !.patches = r.patches]
        rec == recover_message(encode_defunct(header_bytes(ps.header)), ps.signature)
    IN  [ps |-> after, raised |-> rec.raised, ret |-> rec.ret, recovered |-> TRUE]

\* get_signer_of_patchset: the exception raised ("None" when it returns), the
\* address returned, whether recover_message was called, and ps after the
\* call.  The assert statement raises AssertionError (interpreter run with
\* __debug__ on, the default).
get_signer_of_patchset(ps) ==
    LET r == get_root_hash_of_patches(ps.patches)
        after == [ps EXCEPT !.patches = r.patches]
    IN  IF r.ret # ps.header.root_hash
        THEN [ps |-> after, raised |-> "AssertionError", ret |-> "None",
              recovered |-> FALSE]
        ELSE LET rec == recover_message(encode_defunct(header_bytes(ps.header)),
                                        ps.signature)
             IN  [ps |-> after, raised |-> rec.raised, ret |-> rec.ret,
                  recovered |-> TRUE]

NoError ==
    [raised |-> "None", calculated_root |-> <<>>, expected_root |-> <<>>,
     consumed |-> 0, total |-> 0]

\* The variant that goes straight to verify_inclusion_path.
verify_proof_without_root_check(leaf_index, element, path, wanted_root) ==
    LET v == verify_inclusion_path(leaf_index, element, path, wanted_root)
    IN  IF ~v[1] THEN [NoError EXCEPT !.raised = "VerificationError"]
        ELSE IF v[2] # Len(path)
        THEN [NoError EXCEPT !.raised = "PathLengthError",
                             !.consumed = v[2], !.total = Len(path)]
        ELSE NoError

\* verify_proof: the exception raised with its attributes, "None" when the
\* call returns.
verify_proof(leaf_index, element, path, wanted_root) ==
    LET root == included_root(leaf_index, element, path)
        v == verify_inclusion_path(leaf_index, element, path, wanted_root)
    IN  IF root # wanted_root
        THEN [NoError EXCEPT !.raised = "RootMismatchError",
                             !.calculated_root = root, !.expected_root = wanted_root]
        ELSE IF ~v[1] THEN [NoError EXCEPT !.raised = "VerificationError"]
        ELSE IF v[2] # Len(path)
        THEN [NoError EXCEPT !.raised = "PathLengthError",
                             !.consumed = v[2], !.total = Len(path)]
        ELSE NoError

\* ------------------------------------------------- Python values (cbor/*.py)
\* A Python value is a pair of its class and its payload; None has no
\* payload.  Strings carry their text, bytes their list of byte values.
PyNone == <<"NoneType">>

PyInt(n) == <<"int", n>>

PyStr(s) == <<"str", s>>

PyBytes(b) == <<"bytes", b>>

PyBool(b) == <<"bool", b>>

type_of(v) == v[1]

\* isinstance(v, int): bool is a subclass of int.
isinstance_int(v) == type_of(v) \in {"int", "bool"}

\* Truth value testing: None, 0, "", b"" and False are false; an object
\* whose class defines neither __bool__ nor __len__ (EthereumAddress) is true.
bool(v) ==
    CASE type_of(v) = "NoneType" -> FALSE
      [] type_of(v) = "int" -> v[2] # 0
      [] type_of(v) = "str" -> v[2] # ""
      [] type_of(v) = "bytes" -> Len(v[2]) > 0
      [] type_of(v) = "bool" -> v[2]
      [] OTHER -> TRUE

any(xs) == \E i \in 1 .. Len(xs) : bool(xs[i])

\* What a constructor or decoder hands back: the exception raised ("None"
\* when it returns) and the object (NoObject when it raised).
NoObject == <<"NoObject">>

Raise(exc) == [raised |-> exc, self |-> NoObject]

Return(self) == [raised |-> "None", self |-> self]

\* An object held where None may be held instead: its class and its fields.
Object(class, fields) == <<class, fields>>

\* ------------------------------------------------- cbor/base_types.py: EthereumAddress
EthereumAddress_SIZE == 20

\* EthereumAddress(value) for a bytes value of the right length.
EthereumAddress(b) == <<"EthereumAddress", b>>

\* bytes(addr)
EthereumAddress_bytes(addr) == PyBytes(addr[2])

\* ------------------------------------------------- cbor/base_types.py: Uint256
\* The width of a Uint256 in bytes, scaled down from 32.
UintBytes == 1

Pow256(n) == Pow2(8 * n)

\* 1 << 256, at the scaled width
UintLimit == Pow256(UintBytes)

\* A Decimal is held as its number of tenths.
PyDecimal(tenths) == <<"Decimal", tenths>>

\* int(d) for a Decimal d truncates towards zero.
Decimal_int(d) == IF d[2] >= 0 THEN d[2] \div 10 ELSE -((-d[2]) \div 10)

\* Text that is parsed as a number carries its list of characters.
DecDigits == <<"0", "1", "2", "3", "4", "5", "6", "7", "8", "9">>

HexDigits == DecDigits \o <<"a", "b", "c", "d", "e", "f">>

DigitValue(digits, ch) == (CHOOSE i \in 1 .. Len(digits) : digits[i] = ch) - 1

IsDigit(digits, ch) == \E i \in 1 .. Len(digits) : digits[i] = ch

RECURSIVE digits_value(_, _, _)
digits_value(digits, chars, acc) ==
    IF chars = <<>> THEN acc
    ELSE digits_value(digits, Tail(chars), acc * Len(digits) + DigitValue(digits, Head(chars)))

startswith_0x(chars) == Len(chars) >= 2 /\ chars[1] = "0" /\ chars[2] = "x"

\* int(text) and int(text, 16): an optional sign, for base 16 an optional 0x
\* prefix, then at least one digit of the base and nothing else.  ok is
\* FALSE where Python raises ValueError.
int_parse(chars, base) ==
    LET signed == chars # <<>> /\ Head(chars) \in {"-", "+"}
        rest == IF signed THEN Tail(chars) ELSE chars
        digits == IF base = 16 THEN HexDigits ELSE DecDigits
        body == IF base = 16 /\ startswith_0x(rest) THEN SubSeq(rest, 3, Len(rest))
                ELSE rest
    IN  IF body = <<>> \/ \E i \in 1 .. Len(body) : ~IsDigit(digits, body[i])
        THEN [ok |-> FALSE, value |-> 0]
        ELSE LET v == digits_value(digits, body, 0)
             IN  [ok |-> TRUE, value |-> IF signed /\ Head(chars) = "-" THEN -v ELSE v]

Uint256_object(v) == <<"Uint256", v>>

\* The check that closes Uint256.__init__.
Uint256_fits(v) ==
    IF v >= UintLimit THEN Raise("ValueError") ELSE Return(Uint256_object(v))

\* Uint256(value)
Uint256_init(value) ==
    IF type_of(value) = "Uint256" THEN Uint256_fits(value[2])
    ELSE IF type_of(value) = "str"
    THEN LET p == IF startswith_0x(value[2]) THEN int_parse(value[2], 16)
                  ELSE int_parse(value[2], 10)
         IN  IF ~p.ok THEN Raise("ValueError") ELSE Uint256_fits(p.value)
    ELSE IF type_of(value) \in {"int", "Decimal"}
    THEN IF value[2] < 0 THEN Raise("ValueError")
         ELSE Uint256_fits(IF type_of(value) = "int" THEN value[2] ELSE Decimal_int(value))
    ELSE Raise("TypeError")

\* int.from_bytes(data, byteorder="big")
RECURSIVE int_from_bytes(_, _)
int_from_bytes(b, acc) ==
    IF b = <<>> THEN acc ELSE int_from_bytes(Tail(b), acc * 256 + Head(b))

\* Uint256.from_bytes(data)
Uint256_from_bytes(data) == Uint256_init(PyInt(int_from_bytes(data[2], 0)))

\* Uint256.from_cbor(data)
Uint256_from_cbor(data) ==
    IF type_of(data) = "bytes" THEN Uint256_from_bytes(data)
    ELSE IF type_of(data) = "int" THEN Uint256_init(data)
    ELSE Raise("TypeError")

\* ------------------------------------------------- cbor/patch.py: PatchPath
SCHEMA_VERSION == "SchemaVersion"

MANIFEST == "Manifest"

ACCOUNT == "Accounts"

LISTING == "Listings"

ORDER == "Orders"

TAG == "Tags"

INVENTORY == "Inventory"

ObjectType == {SCHEMA_VERSION, MANIFEST, ACCOUNT, LISTING, ORDER, TAG, INVENTORY}

\* PatchPath.__post_init__ on the fields the dataclass __init__ assigned.
PatchPath_post_init(type, object_id, account_addr, tag_name, fields) ==
    LET self == [type |-> type, object_id |-> object_id, account_addr |-> account_addr,
                 tag_name |-> tag_name,
                 fields |-> IF fields = PyNone THEN <<>> ELSE fields]
    IN  IF type = MANIFEST
        THEN IF any(<<object_id, account_addr, tag_name>>)
             THEN Raise("ValueError") ELSE Return(self)
        ELSE IF type = ACCOUNT
        THEN IF ~bool(account_addr) THEN Raise("ValueError")
             ELSE IF any(<<object_id, tag_name>>) THEN Raise("ValueError")
             ELSE Return(self)
        ELSE IF type \in {LISTING, ORDER, INVENTORY}
        THEN IF object_id = PyNone THEN Raise("ValueError")
             ELSE IF any(<<account_addr, tag_name>>) THEN Raise("ValueError")
             ELSE Return(self)
        ELSE IF type = TAG
        THEN IF ~bool(tag_name) THEN Raise("ValueError")
             ELSE IF any(<<object_id, account_addr>>) THEN Raise("ValueError")
             ELSE Return(self)
        ELSE Return(self)

\* PatchPath.to_cbor_list: the list of Python values handed to the encoder.
PatchPath_to_cbor_list(self) ==
    LET head == <<PyStr(self.type)>>
        id == IF self.type = MANIFEST THEN <<>>
              ELSE IF self.type = ACCOUNT THEN <<EthereumAddress_bytes(self.account_addr)>>
              ELSE IF self.type \in {LISTING, ORDER, INVENTORY} THEN <<self.object_id>>
              ELSE IF self.type = TAG THEN <<self.tag_name>>
              ELSE <<>>
    IN  head \o id \o self.fields

\* PatchPath.from_cbor on a decoded CBOR array.
PatchPath_from_cbor(data) ==
    IF Len(data) = 0 \/ type_of(data[1]) # "str" THEN Raise("ValueError")
    ELSE IF data[1][2] \notin ObjectType THEN Raise("ValueError")
    ELSE LET obj_type == data[1][2]
         IN  IF obj_type # MANIFEST
             THEN IF Len(data) < 2 THEN Raise("ValueError")
                  ELSE IF obj_type = ACCOUNT
                  THEN IF type_of(data[2]) # "bytes"
                          \/ Len(data[2][2]) # EthereumAddress_SIZE
                       THEN Raise("ValueError")
                       ELSE PatchPath_post_init(obj_type, PyNone,
                                EthereumAddress(data[2][2]), PyNone,
                                SubSeq(data, 3, Len(data)))
                  ELSE IF obj_type \in {LISTING, ORDER, INVENTORY}
                  THEN IF ~isinstance_int(data[2]) THEN Raise("ValueError")
                       ELSE PatchPath_post_init(obj_type, data[2], PyNone, PyNone,
                                SubSeq(data, 3, Len(data)))
                  ELSE IF obj_type = TAG
                  THEN IF type_of(data[2]) # "str" THEN Raise("ValueError")
                       ELSE PatchPath_post_init(obj_type, PyNone, PyNone, data[2],
                                SubSeq(data, 3, Len(data)))
                  ELSE PatchPath_post_init(obj_type, PyNone, PyNone, PyNone,
                           SubSeq(data, 3, Len(data)))
             ELSE PatchPath_post_init(obj_type, PyNone, PyNone, PyNone,
                      SubSeq(data, 2, Len(data)))

\* ------------------------------------------------- cbor/patch.py: Patch, PatchSetHeader, SignedPatchSet
HashSize == 32

SignatureSize == 65

OpString == {"add", "append", "replace", "remove", "increment", "decrement"}

\* Patch(op=OpString(p["Op"]), path=PatchPath.from_cbor(p["Path"]), value=p["Value"])
\* for a decoded patch p whose Path is a list.
Patch_from_dict(p) ==
    IF p.Op \notin OpString THEN Raise("ValueError")
    ELSE LET path == PatchPath_from_cbor(p.Path)
         IN  IF path.raised # "None" THEN Raise(path.raised)
             ELSE Return([op |-> p.Op, path |-> path.self, value |-> p.Value])

\* PatchSetHeader.__post_init__
PatchSetHeader_post_init(key_card_nonce, shop_id, timestamp, root_hash) ==
    IF key_card_nonce <= 0 THEN Raise("ValueError")
    ELSE IF Len(root_hash[2]) = 0 THEN Raise("ValueError")
    ELSE Return([key_card_nonce |-> key_card_nonce, shop_id |-> shop_id,
                 timestamp |-> timestamp, root_hash |-> root_hash])

\* The variant that does not look at the signature.
SignedPatchSet_post_init_unsigned(header, signature, patches) ==
    IF Len(patches) = 0 THEN Raise("ValueError")
    ELSE Return([header |-> header, signature |-> signature, patches |-> patches])

\* SignedPatchSet.__post_init__
SignedPatchSet_post_init(header, signature, patches) ==
    IF Len(patches) = 0 THEN Raise("ValueError")
    ELSE IF Len(signature[2]) = 0 THEN Raise("ValueError")
    ELSE Return([header |-> header, signature |-> signature, patches |-> patches])

\* SignedPatchSet.from_cbor_dict: the header, then the patches in order,
\* then the set; the first exception ends the call.
SignedPatchSet_from_cbor_dict(d) ==
    LET shop_id == Uint256_init(d.Header.ShopID)
    IN  IF shop_id.raised # "None" THEN Raise(shop_id.raised)
        ELSE LET header == PatchSetHeader_post_init(d.Header.KeyCardNonce, shop_id.self,
                               d.Header.Timestamp, d.Header.RootHash)
                 made == [i \in 1 .. Len(d.Patches) |-> Patch_from_dict(d.Patches[i])]
                 bad == {i \in 1 .. Len(d.Patches) : made[i].raised # "None"}
             IN  IF header.raised # "None" THEN Raise(header.raised)
                 ELSE IF bad # {}
                 THEN Raise(made[CHOOSE i \in bad : \A j \in bad : i <= j].raised)
                 ELSE SignedPatchSet_post_init(header.self, d.Signature,
                          [i \in 1 .. Len(d.Patches) |-> made[i].self])

\* ------------------------------------------------- decoded CBOR maps
\* A decoded map is a function from its keys; d.get(key) is None for a
\* missing key.
dict_get(d, key) == IF key \in DOMAIN d THEN d[key] ELSE PyNone

\* The exception of the first call, in evaluation order, that raised;
\* "None" when none did.
RECURSIVE first_raised(_)
first_raised(rs) ==
    IF rs = <<>> THEN "None"
    ELSE IF Head(rs).raised # "None" THEN Head(rs).raised
    ELSE first_raised(Tail(rs))

\* d.get(key) followed by from_cbor_dict unless it is None.
Optional(d, key, decode(_)) ==
    IF key \notin DOMAIN d THEN Return(PyNone) ELSE decode(d[key])

\* ------------------------------------------------- cbor/listing.py: ListingStockStatus
\* ListingStockStatus.__post_init__
ListingStockStatus_post_init(variation_ids, in_stock, expected_in_stock_by) ==
    IF in_stock = PyNone /\ expected_in_stock_by = PyNone THEN Raise("ValueError")
    ELSE Return([variation_ids |-> variation_ids, in_stock |-> in_stock,
                 expected_in_stock_by |-> expected_in_stock_by])

\* ListingStockStatus.from_cbor_dict
ListingStockStatus_from_cbor_dict(d) ==
    IF "VariationIDs" \notin DOMAIN d THEN Raise("KeyError")
    ELSE ListingStockStatus_post_init(d["VariationIDs"], dict_get(d, "InStock"),
             dict_get(d, "ExpectedInStockBy"))

\* ------------------------------------------------- cbor/base_types.py: ChainAddress, Payee
\* ChainAddress.from_cbor_dict, for an Address of 20 bytes
ChainAddress_from_cbor_dict(d) ==
    IF d.ChainID <= 0 THEN Raise("ValueError")
    ELSE Return(Object("ChainAddress",
                    [chain_id |-> d.ChainID, address |-> EthereumAddress(d.Address[2])]))

\* Payee.from_cbor_dict
Payee_from_cbor_dict(d) ==
    LET address == ChainAddress_from_cbor_dict(d.Address)
    IN  IF address.raised # "None" THEN Raise(address.raised)
        ELSE Return(Object("Payee",
                        [address |-> address.self, call_as_contract |-> d.CallAsContract]))

\* ------------------------------------------------- cbor/order.py
UNSPECIFIED == 0

OPEN == 1

CANCELED == 2

COMMITTED == 3

PAYMENT_CHOSEN == 4

UNPAID == 5

PAID == 6

OrderState == {UNSPECIFIED, OPEN, CANCELED, COMMITTED, PAYMENT_CHOSEN, UNPAID, PAID}

\* OrderedItem.from_cbor_dict with __post_init__
OrderedItem_from_cbor_dict(d) ==
    IF d.ListingID <= 0 THEN Raise("ValueError")
    ELSE IF d.Quantity < 0 THEN Raise("ValueError")
    ELSE Return([listing_id |-> d.ListingID, quantity |-> d.Quantity,
                 variation_ids |-> dict_get(d, "VariationIDs")])

\* AddressDetails.from_cbor_dict: a dataclass without checks.
AddressDetails_from_cbor_dict(d) ==
    Return(Object("AddressDetails",
               [name |-> d.Name, address1 |-> d.Address1, city |-> d.City,
                country |-> d.Country, email_address |-> d.EmailAddress]))

\* PaymentDetails.from_cbor_dict with __post_init__
PaymentDetails_from_cbor_dict(d) ==
    LET total == Uint256_init(d.Total)
    IN  IF total.raised # "None" THEN Raise(total.raised)
        ELSE IF Len(d.ListingHashes) = 0 THEN Raise("ValueError")
        ELSE IF d.TTL <= 0 THEN Raise("ValueError")
        ELSE IF Len(d.PaymentID[2]) # HashSize THEN Raise("ValueError")
        ELSE IF Len(d.ShopSignature[2]) # SignatureSize THEN Raise("ValueError")
        ELSE Return(Object("PaymentDetails",
                        [payment_id |-> d.PaymentID, total |-> total.self,
                         listing_hashes |-> d.ListingHashes, ttl |-> d.TTL,
                         shop_signature |-> d.ShopSignature]))

\* OrderPaid.__post_init__
OrderPaid_post_init(block_hash, tx_hash) ==
    IF Len(block_hash[2]) # HashSize THEN Raise("ValueError")
    ELSE IF tx_hash # PyNone /\ Len(tx_hash[2]) # HashSize THEN Raise("ValueError")
    ELSE Return(Object("OrderPaid", [block_hash |-> block_hash, tx_hash |-> tx_hash]))

\* OrderPaid.from_cbor_dict
OrderPaid_from_cbor_dict(d) ==
    IF "BlockHash" \notin DOMAIN d THEN Raise("ValueError")
    ELSE OrderPaid_post_init(d["BlockHash"], dict_get(d, "TxHash"))

\* The variant that asks nothing of a canceled order.
Order_post_init_uncanceled(id, items, state, invoice_address, shipping_address, canceled_at, chosen_payee, chosen_currency, payment_details, tx_details) ==
    LET self == [id |-> id, items |-> items, state |-> state,
                 invoice_address |-> invoice_address,
                 shipping_address |-> shipping_address, canceled_at |-> canceled_at,
                 chosen_payee |-> chosen_payee, chosen_currency |-> chosen_currency,
                 payment_details |-> payment_details, tx_details |-> tx_details]
    IN  IF state = PAID /\ tx_details = PyNone THEN Raise("ValueError")
        ELSE IF state \in {PAID, UNPAID} /\ payment_details = PyNone THEN Raise("ValueError")
        ELSE IF state \in {PAID, UNPAID, COMMITTED}
                /\ (\/ chosen_payee = PyNone
                    \/ chosen_currency = PyNone
                    \/ (invoice_address = PyNone /\ shipping_address = PyNone))
        THEN Raise("ValueError")
        ELSE Return(self)

\* Order.__post_init__
Order_post_init(id, items, state, invoice_address, shipping_address, canceled_at, chosen_payee, chosen_currency, payment_details, tx_details) ==
    LET self == [id |-> id, items |-> items, state |-> state,
                 invoice_address |-> invoice_address,
                 shipping_address |-> shipping_address, canceled_at |-> canceled_at,
                 chosen_payee |-> chosen_payee, chosen_currency |-> chosen_currency,
                 payment_details |-> payment_details, tx_details |-> tx_details]
    IN  IF state = PAID /\ tx_details = PyNone THEN Raise("ValueError")
        ELSE IF state \in {PAID, UNPAID} /\ payment_details = PyNone THEN Raise("ValueError")
        ELSE IF state \in {PAID, UNPAID, COMMITTED}
                /\ (\/ chosen_payee = PyNone
                    \/ chosen_currency = PyNone
                    \/ (invoice_address = PyNone /\ shipping_address = PyNone))
        THEN Raise("ValueError")
        ELSE IF state = CANCELED /\ canceled_at = PyNone THEN Raise("ValueError")
        ELSE Return(self)

\* Order.from_cbor_dict: the members are decoded in this order, then
\* OrderState(d["State"]), then the constructor.
Order_from_cbor_dict(d) ==
    LET items == [i \in 1 .. Len(d.Items) |-> OrderedItem_from_cbor_dict(d.Items[i])]
        invoice_address == Optional(d, "InvoiceAddress", AddressDetails_from_cbor_dict)
        shipping_address == Optional(d, "ShippingAddress", AddressDetails_from_cbor_dict)
        chosen_payee == Optional(d, "ChosenPayee", Payee_from_cbor_dict)
        chosen_currency == Optional(d, "ChosenCurrency", ChainAddress_from_cbor_dict)
        payment_details == Optional(d, "PaymentDetails", PaymentDetails_from_cbor_dict)
        tx_details == Optional(d, "TxDetails", OrderPaid_from_cbor_dict)
        raised == first_raised(items \o <<invoice_address, shipping_address, chosen_payee,
                                           chosen_currency, payment_details, tx_details>>)
    IN  IF raised # "None" THEN Raise(raised)
        ELSE IF d.State \notin OrderState THEN Raise("ValueError")
        ELSE Order_post_init(d.ID, [i \in 1 .. Len(d.Items) |-> items[i].self], d.State,
                 invoice_address.self, shipping_address.self,
                 dict_get(d, "CanceledAt"), chosen_payee.self, chosen_currency.self,
                 payment_details.self, tx_details.self)

\* ------------------------------------------------- the HAMT state machine
VARIABLES
    heap,     \* node id -> Node object
    tries,    \* "t" (and "t2" once copied) -> Trie object
    last,     \* per trie, key -> the value last written, None when absent (history)
    pure,     \* per trie: built from new by inserts of absent keys only (history)
    steps,    \* number of calls made
    target    \* the trie the last call was an insert or delete on, else "none" (history)

hamtVars == <<heap, tries, last, pure, steps, target>>

VARIABLES
    store,    \* FlatDB.store of the MMR under test
    res,      \* the last MMR call: its arguments and what it returned
    leaves    \* the values given to add_leaf_hash so far, in order (history)

mmrVars == <<store, res, leaves>>

VARIABLES
    ps,       \* the SignedPatchSet object last passed to get_signer_of_patchset
    pres      \* the last patch-set call: its arguments and what it returned

patchVars == <<ps, pres>>

VARIABLES
    obj       \* the last constructor or decoder call on a cbor type: its
              \* arguments, the exception raised and the object made

cborVars == <<obj>>

vars == <<hamtVars, mmrVars, patchVars, cborVars>>

HamtInit ==
    LET n == Trie_new(<<>>)
    IN  /\ heap = n.heap
        /\ tries = ("t" :> n.trie)
        /\ last = ("t" :> [k \in Keys |-> None])
        /\ pure = ("t" :> TRUE)
        /\ steps = 0
        /\ target = "none"

MmrInit ==
    /\ store = <<>>
    /\ res = [op |-> "none"]
    /\ leaves = <<>>

PatchInit ==
    /\ ps = [op |-> "none"]
    /\ pres = [op |-> "none"]

CborInit ==
    obj = [op |-> "none"]

\* t.insert(key, value) or t2.insert(key, value)
Insert(w, key, value) ==
    /\ steps < MaxSteps
    /\ w \in DOMAIN tries
    /\ LET r == Trie_insert(heap, tries[w], key, value)
       IN  /\ heap' = r.heap
           /\ tries' = [tries EXCEPT ![w] = r.trie]
    /\ last' = [last EXCEPT ![w][key] = value]
    /\ pure' = [pure EXCEPT ![w] = @ /\ last[w][key] = None]
    /\ steps' = steps + 1
    /\ target' = w
    /\ UNCHANGED <<mmrVars, patchVars, cborVars>>

\* t.delete(key) or t2.delete(key)
Delete(w, key) ==
    /\ steps < MaxSteps
    /\ w \in DOMAIN tries
    /\ LET r == Trie_delete(heap, tries[w], key)
           ts == [tries EXCEPT ![w] = r.trie]
       IN  /\ heap' = Collect(r.heap, ts)
           /\ tries' = ts
    /\ last' = [last EXCEPT ![w][key] = None]
    /\ pure' = [pure EXCEPT ![w] = FALSE]
    /\ steps' = steps + 1
    /\ target' = w
    /\ UNCHANGED <<mmrVars, patchVars, cborVars>>

\* t.hash() or t2.hash(): memoises, returns Trie_hash(heap, tries[w]).
Hash(w) ==
    /\ steps < MaxSteps
    /\ w \in DOMAIN tries
    /\ heap' = IF tries[w].root = None THEN heap ELSE Node_hash(heap, tries[w].root).heap
    /\ steps' = steps + 1
    /\ target' = "none"
    /\ UNCHANGED <<tries, last, pure, mmrVars, patchVars, cborVars>>

\* t2 = t.copy()
Copy ==
    /\ steps < MaxSteps
    /\ LET c == Trie_copy(heap, tries["t"])
           ts == ("t2" :> c.trie) @@ tries
       IN  /\ heap' = Collect(c.heap, ts)
           /\ tries' = ts
    /\ last' = ("t2" :> last["t"]) @@ last
    /\ pure' = ("t2" :> FALSE) @@ pure
    /\ steps' = steps + 1
    /\ target' = "none"
    /\ UNCHANGED <<mmrVars, patchVars, cborVars>>

TrieNames == {"t", "t2"}

Init == HamtInit /\ MmrInit /\ PatchInit /\ CborInit

Next ==
    \/ \E w \in TrieNames, key \in Keys, value \in Values : Insert(w, key, value)
    \/ \E w \in TrieNames, key \in Keys : Delete(w, key)
    \/ \E w \in TrieNames : Hash(w)
    \/ Copy

Spec == Init /\ [][Next]_vars

\* ------------------------------------------------- claims about the HAMT
Live(w) == {k \in Keys : last[w][k] # None}


\* C1: after any sequence of insert and delete calls, for every key k,
\* Trie.get(k) returns the value of the last insert of k when no delete of k
\* followed it, and None when k was never inserted or was deleted last.
C1_GetReturnsLastWritten ==
    \A w \in DOMAIN tries : \A k \in Keys :
        Trie_get(heap, tries[w], k) = Plain(last[w][k])

\* A new trie into which the pairs of content (key -> value, None when the
\* key has none) are inserted in ascending key order.
RECURSIVE InsertAscending(_, _, _)
InsertAscending(built, content, k) ==
    IF k > NumKeys THEN built
    ELSE IF content[k] = None THEN InsertAscending(built, content, k + 1)
    ELSE InsertAscending(Trie_insert(built.heap, built.trie, k, content[k]),
                         content, k + 1)

BuiltAscending(content) == InsertAscending(Trie_new(<<>>), content, 1)

HashBuiltAscending(content) ==
    LET b == BuiltAscending(content) IN Trie_hash(b.heap, b.trie)

\* C2: inserting a set of pairs with distinct keys into a new trie yields the
\* same Trie.hash() in any order of insertion (stated against one fixed
\* order, the ascending one: every order agrees with it).
C2_HashOrderIndependent ==
    \A w \in DOMAIN tries :
        pure[w] => Trie_hash(heap, tries[w]) = HashBuiltAscending(last[w])

\* The heap with every memoised hash dropped: a cache-free copy.
CacheFree(h) == [n \in DOMAIN h |-> [h[n] EXCEPT !.hash = NoHash]]

\* C3: every node's memoised hash is empty or equal to the hash recomputed
\* from the node's current entries and children, so Trie.hash() returns the
\* hash of a cache-free copy of the trie.
C3_HashCacheFresh ==
    \A w \in DOMAIN tries :
        /\ \A n \in NodesUnder(heap, tries[w].root) :
              \/ heap[n].hash = NoHash
              \/ heap[n].hash = SomeHash(Node_hash(CacheFree(heap), n).digest)
        /\ Trie_hash(heap, tries[w]) = Trie_hash(CacheFree(heap), tries[w])

\* What a caller can see of trie w in heap h: get of every key, size, hash(),
\* iteration.
Observed(h, ts, w) ==
    [get  |-> [k \in Keys |-> Trie_get(h, ts[w], k)],
     size |-> ts[w].size,
     hash |-> Trie_hash(h, ts[w]),
     all  |-> Trie_all(h, ts[w])]

Other(w) == IF w = "t" THEN "t2" ELSE "t"

\* C4: after t2 = t.copy(), an insert or delete on one of t, t2 leaves the
\* other unchanged: same get for every key, same size, hash() and iteration.
C4_CopyIsIndependent ==
    [][("t2" \in DOMAIN tries /\ target' # "none")
          => Observed(heap', tries', Other(target')) =
             Observed(heap, tries, Other(target'))]_vars

\* A copy exists, original and copy have been changed apart, and both are
\* more than a single node.
C4_Witness ==
    /\ "t2" \in DOMAIN tries
    /\ last["t"] # last["t2"]
    /\ Cardinality(DOMAIN heap) > 3
    /\ tries["t2"].size > 1

\* C5: Trie.size is the number of distinct live keys.
C5_SizeIsLiveKeys == \A w \in DOMAIN tries : tries[w].size = Cardinality(Live(w))

\* Two keys are live after four calls that were not all inserts of new keys.
C5_Witness ==
    /\ steps >= 4
    /\ ~pure["t"]
    /\ tries["t"].size = 2
    /\ Cardinality(Live("t")) = 2


\* ------------------------------------------------- the MMR state machine
MaxLeaves == 7

\* Leaf values handed to add_leaf_hash, and a value that is in no store.
LeafValues == {<<1>>, <<2>>}

Tampered == <<0>>

Nodes == 0 .. Len(store) - 1

StoreLeaves == IF Len(store) = 0 THEN 0 ELSE leaf_count(Len(store) - 1)

IsComplete(ix) == complete_mmr(ix) = ix

\* The calls below other than add_leaf_hash leave the store as it is, so one
\* of them after each append covers every sequence of calls.
Fresh == res.op \in {"none", "add_leaf_hash"}

\* add_leaf_hash(db, f)
AddLeaf(f) ==
    /\ StoreLeaves < MaxLeaves
    /\ LET r == add_leaf_hash(store, f)
       IN  /\ store' = r.store
           /\ res' = [op |-> "add_leaf_hash", ret |-> r.ret]
    /\ leaves' = Append(leaves, f)
    /\ UNCHANGED <<hamtVars, patchVars, cborVars>>

\* The body of the loop of test_verify_inclusion for node i and MMR(ix).
ProveInclusion(i, ix) ==
    /\ Fresh
    /\ i \in Nodes
    /\ ix \in Nodes /\ IsComplete(ix)
    /\ LET acc == accumulator(store, ix)
           path == inclusion_proof(store, i, ix)
           e == leaf_count(ix)
           g == Len(path) + index_height(i)
           iacc == accumulator_index(e, g)
           call == [op |-> "inclusion", i |-> i, ix |-> ix, path |-> path, iacc |-> iacc,
                    root |-> included_root(i, FlatDB_get(store, i), path)]
       IN  res' = IF InRange(acc, iacc)
                  THEN call @@ [raised |-> "None",
                                ret |-> verify_inclusion_path(i, FlatDB_get(store, i),
                                                              path, Index(acc, iacc))]
                  ELSE call @@ [raised |-> "IndexError", ret |-> <<FALSE, 0>>]
    /\ UNCHANGED <<store, leaves, hamtVars, patchVars, cborVars>>

\* The body of the loops of test_consistent_roots and
\* test_verify_consistent_roots for MMR(ifrom) and MMR(ito).
ProveConsistency(ifrom, ito) ==
    /\ Fresh
    /\ ifrom \in Nodes /\ IsComplete(ifrom)
    /\ ito \in Nodes /\ IsComplete(ito)
    /\ LET proofs == consistency_proof(store, ifrom, ito)
           accumulatorfrom == accumulator(store, ifrom)
           toaccumulator == accumulator(store, ito)
           proven == consistent_roots(ifrom, accumulatorfrom, proofs)
       IN  res' = [op |-> "consistency", ifrom |-> ifrom, ito |-> ito,
                   roots |-> proven.roots,
                   ret |-> verify_consistent_roots(ifrom, accumulatorfrom,
                                                   toaccumulator, proofs)]
    /\ UNCHANGED <<store, leaves, hamtVars, patchVars, cborVars>>

Modes ==
    {"genuine", "wrong_element", "other_element", "wrong_root", "inner_root",
     "missing", "extra", "wrong_sibling"}

\* verify_proof on the proof of leaf i in MMR(ix), genuine or altered in
\* one way.
VerifyProof(i, ix, mode) ==
    /\ Fresh
    /\ i \in Nodes /\ index_height(i) = 0
    /\ ix \in Nodes /\ IsComplete(ix) /\ ix >= complete_mmr(i)
    /\ LET proof == inclusion_proof(store, i, ix)
           node == FlatDB_get(store, i)
           shorter == SubSeq(proof, 1, Len(proof) - 1)
           element == IF mode \in {"wrong_element", "other_element"}
                      THEN Tampered ELSE node
           path == CASE mode = "missing" -> shorter
                     [] mode = "extra" -> Append(proof, Tampered)
                     [] mode = "wrong_sibling" -> [proof EXCEPT ![1] = Tampered]
                     [] OTHER -> proof
           wanted_root == CASE mode = "wrong_root" -> Tampered
                            [] mode = "inner_root" -> included_root(i, node, shorter)
                            [] mode = "other_element" -> included_root(i, Tampered, proof)
                            [] OTHER -> included_root(i, node, proof)
       IN  /\ mode \in {"missing", "inner_root", "wrong_sibling"} => Len(proof) > 0
           /\ res' = [op |-> "verify_proof", mode |-> mode, leaf_index |-> i,
                      element |-> element, path |-> path, wanted_root |-> wanted_root,
                      out |-> verify_proof(i, element, path, wanted_root)]
    /\ UNCHANGED <<store, leaves, hamtVars, patchVars, cborVars>>

\* The indices a call may be given: those of the store, once it is fresh.
Given == IF Fresh THEN Nodes ELSE {}

NextMMR ==
    \/ \E f \in LeafValues : AddLeaf(f)
    \/ \E i \in Given, ix \in Given : ProveInclusion(i, ix)
    \/ \E ifrom \in Given, ito \in Given : ProveConsistency(ifrom, ito)
    \/ \E i \in Given, ix \in Given, mode \in Modes : VerifyProof(i, ix, mode)

SpecMMR == Init /\ [][NextMMR]_vars

\* The body of the loop of test_witness_update: the witness of node i in
\* MMR(c0), in MMR(c1), and the old one extended from its root.
UpdateWitness(i, c0, c1) ==
    /\ Fresh
    /\ i \in Nodes
    /\ c0 \in Nodes /\ IsComplete(c0)
    /\ c1 \in Nodes /\ IsComplete(c1)
    /\ LET old == inclusion_proof_path(i, c0)
           w == inclusion_proof_path(i, c1)
           ioldroot == IF Len(old) # 0 THEN parent(old[Len(old)]) ELSE i
       IN  res' = [op |-> "witness", i |-> i, c0 |-> c0, c1 |-> c1, old |-> old,
                   w |-> w, ioldroot |-> ioldroot,
                   wupdated |-> old \o inclusion_proof_path(ioldroot, c1)]
    /\ UNCHANGED <<store, leaves, hamtVars, patchVars, cborVars>>

\* Index paths do not read the values in the store: one leaf value is
\* appended here.
NextWitness ==
    \/ AddLeaf(<<1>>)
    \/ \E i \in Given, c0 \in Given, c1 \in Given : UpdateWitness(i, c0, c1)

SpecWitness == Init /\ [][NextWitness]_vars

\* ------------------------------------------------- the patch-set state machine
NumPatchValues == 2

MaxPatches == 5

PatchValues == 1 .. NumPatchValues

PatchLists == UNION {[1..n -> PatchValues] : n \in 0..MaxPatches}

Addresses == {"A", "B"}

\* SignedPatchSet objects: the header's root is the root of the patches or
\* of another list; the signature is by some key over this header or over
\* another message, or is malformed.
PatchSets(patches) ==
    {[header |-> header, signature |-> signature, patches |-> patches] :
        header \in {[key_card_nonce |-> 1, root_hash |-> get_root_hash_of_patches(q).ret] :
                       q \in {patches, <<1>>, <<2, 1>>}},
        signature \in
            {[wellformed |-> TRUE, signer |-> a, message |-> encode_defunct(m)] :
                a \in Addresses,
                m \in {header_bytes([key_card_nonce |-> 1,
                                     root_hash |-> get_root_hash_of_patches(q).ret]) :
                          q \in {patches, <<1>>}}}
            \cup {[wellformed |-> FALSE, signer |-> "None", message |-> <<>>]}}

\* Both calls are functions of their argument: one call per behaviour.
Idle == pres.op = "none"

\* get_root_hash_of_patches(patches)
RootOfPatches(patches) ==
    /\ Idle
    /\ pres' = [op |-> "root", arg |-> patches,
                call |-> get_root_hash_of_patches(patches)]
    /\ UNCHANGED <<ps, hamtVars, mmrVars, cborVars>>

\* get_signer_of_patchset(p)
SignerOfPatchset(p) ==
    /\ Idle
    /\ Len(p.patches) > 0
    /\ LET r == get_signer_of_patchset(p)
       IN  /\ ps' = r.ps
           /\ pres' = [op |-> "signer", before |-> p, raised |-> r.raised,
                       ret |-> r.ret, recovered |-> r.recovered]
    /\ UNCHANGED <<hamtVars, mmrVars, cborVars>>

\* get_root_hash_of_patches on a list and on the list with the patches at
\* i and j exchanged.
RootOfReordered(patches, i, j) ==
    /\ Idle
    /\ i \in 1 .. Len(patches) /\ j \in 1 .. Len(patches) /\ i < j
    /\ LET swapped == [patches EXCEPT ![i] = patches[j], ![j] = patches[i]]
       IN  pres' = [op |-> "reorder", a |-> patches, b |-> swapped, i |-> i, j |-> j,
                    root_a |-> get_root_hash_of_patches(patches).ret,
                    root_b |-> get_root_hash_of_patches(swapped).ret,
                    again |-> get_root_hash_of_patches(patches).ret]
    /\ UNCHANGED <<ps, hamtVars, mmrVars, cborVars>>

NextPatch ==
    \/ \E patches \in PatchLists : RootOfPatches(patches)
    \/ \E patches \in PatchLists, i \in 1 .. MaxPatches, j \in 1 .. MaxPatches :
          RootOfReordered(patches, i, j)
    \/ \E patches \in PatchLists : \E p \in PatchSets(patches) : SignerOfPatchset(p)

SpecPatch == Init /\ [][NextPatch]_vars

\* ------------------------------------------------- the cbor-types state machine
MaxObjectId == 1

MaxFields == 2

ObjectIds == {PyNone} \cup {PyInt(n) : n \in 0 .. MaxObjectId}

AccountAddrs == {PyNone, EthereumAddress([i \in 1 .. EthereumAddress_SIZE |-> 1])}

TagNames == {PyNone, PyStr(""), PyStr("t")}

FieldLists ==
    {PyNone} \cup UNION {[1 .. n -> {PyStr("a"), PyInt(7)}] : n \in 0 .. MaxFields}

\* Constructors and decoders are functions of their arguments: one call per
\* behaviour.
Blank == obj.op = "none"

\* The arguments a call is made with: none once a call was made.
Args(S) == IF Blank THEN S ELSE {}

\* PatchPath(type=..., object_id=..., account_addr=..., tag_name=..., fields=...)
NewPatchPath(type, object_id, account_addr, tag_name, fields) ==
    /\ Blank
    /\ LET r == PatchPath_post_init(type, object_id, account_addr, tag_name, fields)
       IN  obj' = [op |-> "PatchPath", type |-> type, object_id |-> object_id,
                   account_addr |-> account_addr, tag_name |-> tag_name,
                   fields |-> fields, raised |-> r.raised, self |-> r.self]
    /\ UNCHANGED <<hamtVars, mmrVars, patchVars>>

\* p = PatchPath(...); PatchPath.from_cbor(p.to_cbor_list())
RoundTripPatchPath(type, object_id, account_addr, tag_name, fields) ==
    /\ Blank
    /\ LET p == PatchPath_post_init(type, object_id, account_addr, tag_name, fields)
       IN  /\ p.raised = "None"
           /\ LET data == PatchPath_to_cbor_list(p.self)
                  q == PatchPath_from_cbor(data)
              IN  obj' = [op |-> "PatchPath.from_cbor", p |-> p.self, data |-> data,
                          raised |-> q.raised, self |-> q.self]
    /\ UNCHANGED <<hamtVars, mmrVars, patchVars>>

MaxStrLen == 5

IntInputs == {PyInt(n) : n \in {-1, 0, 1, UintLimit - 1, UintLimit, UintLimit + 1}}

DecimalInputs ==
    {PyDecimal(t) : t \in {-10, -5, 0, 15, 10 * UintLimit - 1, 10 * UintLimit}}

StrChars == {"-", "0", "1", "x", "f"}

StrInputs == {PyStr(c) : c \in UNION {[1 .. n -> StrChars] : n \in 0 .. MaxStrLen}}

BytesInputs ==
    {PyBytes(b) : b \in UNION {[1 .. n -> {0, 1, 255}] : n \in 0 .. UintBytes + 1}}

\* The Uint256 objects that exist: those some constructor call returned.
Uint256Inputs ==
    {r.self : r \in {q \in {Uint256_init(v) : v \in IntInputs \cup DecimalInputs \cup StrInputs} :
                        q.raised = "None"}}

\* Uint256(value)
NewUint256(value) ==
    /\ Blank
    /\ LET r == Uint256_init(value)
       IN  obj' = [op |-> "Uint256", value |-> value, raised |-> r.raised, self |-> r.self]
    /\ UNCHANGED <<hamtVars, mmrVars, patchVars>>

\* Uint256.from_bytes(data)
Uint256FromBytes(data) ==
    /\ Blank
    /\ LET r == Uint256_from_bytes(data)
       IN  obj' = [op |-> "Uint256.from_bytes", value |-> data, raised |-> r.raised,
                   self |-> r.self]
    /\ UNCHANGED <<hamtVars, mmrVars, patchVars>>

\* Uint256.from_cbor(data)
Uint256FromCbor(data) ==
    /\ Blank
    /\ LET r == Uint256_from_cbor(data)
       IN  obj' = [op |-> "Uint256.from_cbor", value |-> data, raised |-> r.raised,
                   self |-> r.self]
    /\ UNCHANGED <<hamtVars, mmrVars, patchVars>>

MaxPatchObjs == 2

Zeros(n) == PyBytes([i \in 1 .. n |-> 0])

Nonces == {0, 1, 2}

RootHashes == {Zeros(n) : n \in {0, 1, HashSize - 1, HashSize, HashSize + 1}}

Signatures == {Zeros(n) : n \in {0, 1, SignatureSize - 1, SignatureSize, SignatureSize + 1}}

ShopIDs == {PyInt(n) : n \in {-1, 1, UintLimit}}

\* Decoded patches: two well-formed ones, one with an unknown Op, one whose
\* path lacks its id.
PatchDicts ==
    {[Op |-> "add", Path |-> <<PyStr(MANIFEST), PyStr("a")>>, Value |-> PyInt(1)],
     [Op |-> "replace", Path |-> <<PyStr(LISTING), PyInt(1), PyStr("a")>>, Value |-> PyInt(1)],
     [Op |-> "move", Path |-> <<PyStr(MANIFEST), PyStr("a")>>, Value |-> PyInt(1)],
     [Op |-> "remove", Path |-> <<PyStr(LISTING)>>, Value |-> PyInt(1)]}

PatchDictLists == UNION {[1 .. n -> PatchDicts] : n \in 0 .. MaxPatchObjs}

\* Patch objects and lists of them.
PatchObjects == {r.self : r \in {q \in {Patch_from_dict(p) : p \in PatchDicts} : q.raised = "None"}}

PatchObjectLists == UNION {[1 .. n -> PatchObjects] : n \in 0 .. MaxPatchObjs}

\* PatchSetHeader objects: those the constructor returns.
Headers ==
    {r.self : r \in {q \in {PatchSetHeader_post_init(n, Uint256_object(1), PyInt(0), h) :
                               n \in Nonces, h \in RootHashes} : q.raised = "None"}}

\* PatchSetHeader(key_card_nonce=..., shop_id=..., timestamp=..., root_hash=...)
NewPatchSetHeader(key_card_nonce, shop_id, root_hash) ==
    /\ Blank
    /\ LET r == PatchSetHeader_post_init(key_card_nonce, shop_id, PyInt(0), root_hash)
       IN  obj' = [op |-> "PatchSetHeader", key_card_nonce |-> key_card_nonce,
                   shop_id |-> shop_id, root_hash |-> root_hash,
                   raised |-> r.raised, self |-> r.self]
    /\ UNCHANGED <<hamtVars, mmrVars, patchVars>>

\* SignedPatchSet(header=..., signature=..., patches=...)
NewSignedPatchSet(header, signature, patches) ==
    /\ Blank
    /\ LET r == SignedPatchSet_post_init(header, signature, patches)
       IN  obj' = [op |-> "SignedPatchSet", header |-> header, signature |-> signature,
                   patches |-> patches, raised |-> r.raised, self |-> r.self]
    /\ UNCHANGED <<hamtVars, mmrVars, patchVars>>

\* SignedPatchSet.from_cbor_dict(d)
DecodeSignedPatchSet(d) ==
    /\ Blank
    /\ LET r == SignedPatchSet_from_cbor_dict(d)
       IN  obj' = [op |-> "SignedPatchSet.from_cbor_dict", header |-> d.Header,
                   signature |-> d.Signature, patches |-> d.Patches,
                   raised |-> r.raised, self |-> r.self]
    /\ UNCHANGED <<hamtVars, mmrVars, patchVars>>

EmptyDict == [k \in {} |-> PyNone]

\* Decoded members of an order.
AddressDict ==
    [Name |-> PyStr("n"), Address1 |-> PyStr("a"), City |-> PyStr("c"),
     Country |-> PyStr("d"), EmailAddress |-> PyStr("e")]

ChainAddressDict == [ChainID |-> 1, Address |-> Zeros(EthereumAddress_SIZE)]

PayeeDict == [Address |-> ChainAddressDict, CallAsContract |-> PyBool(FALSE)]

PaymentDetailsDict(ttl) ==
    [PaymentID |-> Zeros(HashSize), Total |-> PyInt(1), ListingHashes |-> <<Zeros(HashSize)>>,
     TTL |-> ttl, ShopSignature |-> Zeros(SignatureSize)]

Sample(key) ==
    CASE key \in {"InvoiceAddress", "ShippingAddress"} -> AddressDict
      [] key = "CanceledAt" -> PyInt(1)
      [] key = "ChosenPayee" -> PayeeDict
      [] key = "ChosenCurrency" -> ChainAddressDict

PlainKeys == {"InvoiceAddress", "ShippingAddress", "CanceledAt", "ChosenPayee", "ChosenCurrency"}

\* TxDetails: missing, without BlockHash, with a BlockHash of 32 bytes or of 31.
TxKinds == {"missing", "empty", "sound", "short"}

TxChoice(kind) ==
    CASE kind = "missing" -> EmptyDict
      [] kind = "empty" -> "TxDetails" :> EmptyDict
      [] kind = "sound" -> "TxDetails" :> ("BlockHash" :> Zeros(HashSize))
      [] kind = "short" -> "TxDetails" :> ("BlockHash" :> Zeros(HashSize - 1))

\* PaymentDetails: missing, or with a TTL of 0 or 1.
PayKinds == {-1, 0, 1}

PayChoice(ttl) ==
    IF ttl < 0 THEN EmptyDict ELSE "PaymentDetails" :> PaymentDetailsDict(ttl)

ItemLists ==
    {<<[ListingID |-> 1, Quantity |-> 1]>>, <<[ListingID |-> 0, Quantity |-> 1]>>}

OrderDict(state, items, K, tx, pay) ==
    [ID |-> 1, Items |-> items, State |-> state] @@ [k \in K |-> Sample(k)]
        @@ TxChoice(tx) @@ PayChoice(pay)

\* The member objects a caller can hold: None or what the decoders return.
Maybe(x) == {PyNone, x}

\* Order(id=..., items=..., state=..., ...)
NewOrder(state, invoice_address, shipping_address, canceled_at, chosen_payee, chosen_currency, payment_details, tx_details) ==
    /\ Blank
    /\ LET items == <<OrderedItem_from_cbor_dict([ListingID |-> 1, Quantity |-> 1]).self>>
           r == Order_post_init(1, items, state, invoice_address, shipping_address,
                    canceled_at, chosen_payee, chosen_currency, payment_details, tx_details)
       IN  obj' = [op |-> "Order", state |-> state,
                   args |-> <<invoice_address, shipping_address, canceled_at, chosen_payee,
                              chosen_currency, payment_details, tx_details>>,
                   raised |-> r.raised, self |-> r.self]
    /\ UNCHANGED <<hamtVars, mmrVars, patchVars>>

\* Order.from_cbor_dict(d)
DecodeOrder(d) ==
    /\ Blank
    /\ LET r == Order_from_cbor_dict(d)
       IN  obj' = [op |-> "Order.from_cbor_dict", d |-> d, raised |-> r.raised,
                   self |-> r.self]
    /\ UNCHANGED <<hamtVars, mmrVars, patchVars>>

InStocks == {PyNone, PyBool(TRUE), PyBool(FALSE)}

Timestamps == {PyNone, PyInt(0), PyInt(1)}

VariationIDLists == {<<>>, <<PyStr("v")>>}

StockDicts ==
    {("VariationIDs" :> v) @@ [k \in K |-> IF k = "InStock" THEN PyBool(b) ELSE PyInt(1)] :
        v \in VariationIDLists, K \in SUBSET {"InStock", "ExpectedInStockBy"},
        b \in BOOLEAN}

\* ListingStockStatus(variation_ids=..., in_stock=..., expected_in_stock_by=...)
NewListingStockStatus(variation_ids, in_stock, expected_in_stock_by) ==
    /\ Blank
    /\ LET r == ListingStockStatus_post_init(variation_ids, in_stock, expected_in_stock_by)
       IN  obj' = [op |-> "ListingStockStatus", variation_ids |-> variation_ids,
                   in_stock |-> in_stock, expected_in_stock_by |-> expected_in_stock_by,
                   raised |-> r.raised, self |-> r.self]
    /\ UNCHANGED <<hamtVars, mmrVars, patchVars>>

\* ListingStockStatus.from_cbor_dict(d)
DecodeListingStockStatus(d) ==
    /\ Blank
    /\ LET r == ListingStockStatus_from_cbor_dict(d)
       IN  obj' = [op |-> "ListingStockStatus.from_cbor_dict", d |-> d,
                   raised |-> r.raised, self |-> r.self]
    /\ UNCHANGED <<hamtVars, mmrVars, patchVars>>

NextCbor ==
    \/ \E type \in Args(ObjectType), object_id \in ObjectIds, account_addr \in AccountAddrs,
          tag_name \in TagNames, fields \in FieldLists :
          NewPatchPath(type, object_id, account_addr, tag_name, fields)
    \/ \E type \in Args(ObjectType), object_id \in ObjectIds, account_addr \in AccountAddrs,
          tag_name \in TagNames, fields \in FieldLists :
          RoundTripPatchPath(type, object_id, account_addr, tag_name, fields)
    \/ \E value \in Args(IntInputs \cup DecimalInputs \cup StrInputs \cup Uint256Inputs
                          \cup BytesInputs) : NewUint256(value)
    \/ \E data \in Args(BytesInputs) : Uint256FromBytes(data)
    \/ \E data \in Args(BytesInputs \cup IntInputs \cup DecimalInputs) : Uint256FromCbor(data)
    \/ \E shop_id \in Args(Uint256Inputs), key_card_nonce \in Nonces, root_hash \in RootHashes :
          NewPatchSetHeader(key_card_nonce, shop_id, root_hash)
    \/ \E header \in Args(Headers), signature \in Signatures, patches \in PatchObjectLists :
          NewSignedPatchSet(header, signature, patches)
    \/ \E patches \in Args(PatchDictLists), n \in Nonces, s \in ShopIDs, h \in RootHashes,
          signature \in Signatures :
          DecodeSignedPatchSet([Header |-> [KeyCardNonce |-> n, ShopID |-> s,
                                           Timestamp |-> PyInt(0), RootHash |-> h],
                                Signature |-> signature, Patches |-> patches])
    \/ \E state \in Args(OrderState),
          invoice_address \in Maybe(AddressDetails_from_cbor_dict(AddressDict).self),
          shipping_address \in Maybe(AddressDetails_from_cbor_dict(AddressDict).self),
          canceled_at \in Maybe(PyInt(1)),
          chosen_payee \in Maybe(Payee_from_cbor_dict(PayeeDict).self),
          chosen_currency \in Maybe(ChainAddress_from_cbor_dict(ChainAddressDict).self),
          payment_details \in Maybe(PaymentDetails_from_cbor_dict(PaymentDetailsDict(1)).self),
          tx_details \in Maybe(OrderPaid_post_init(Zeros(HashSize), PyNone).self) :
          NewOrder(state, invoice_address, shipping_address, canceled_at, chosen_payee,
                   chosen_currency, payment_details, tx_details)
    \/ \E state \in Args(OrderState \cup {PAID + 1}), items \in ItemLists,
          K \in SUBSET PlainKeys, tx \in TxKinds, pay \in PayKinds :
          DecodeOrder(OrderDict(state, items, K, tx, pay))
    \/ \E variation_ids \in Args(VariationIDLists), in_stock \in InStocks,
          expected_in_stock_by \in Timestamps :
          NewListingStockStatus(variation_ids, in_stock, expected_in_stock_by)
    \/ \E d \in Args(StockDicts) : DecodeListingStockStatus(d)

SpecCbor == Init /\ [][NextCbor]_vars

\* ------------------------------------------------- claims about the MMR
\* C6: for every node index i (leaf or interior) and every complete MMR
\* index ix >= complete_mmr(i), verify_inclusion_path on node(i), the node
\* values along inclusion_proof_path(i, ix) and the accumulator peak selected
\* by accumulator_index(leaf_count(ix), len(path) + index_height(i)) returns
\* (True, len(path)).
C6_InclusionVerifies ==
    (res.op = "inclusion" /\ IsComplete(res.ix) /\ res.ix >= complete_mmr(res.i))
        => (res.raised = "None" /\ res.ret = <<TRUE, Len(res.path)>>)

C6_Witness ==
    /\ res.op = "inclusion"
    /\ IsComplete(res.ix) /\ res.ix >= complete_mmr(res.i)
    /\ Len(peaks(res.ix)) = 3
    /\ index_height(res.i) = 1
    /\ Len(res.path) = 1
    /\ res.iacc = 0
    /\ res.ret = <<TRUE, 1>>

RECURSIVE IsSubSeq(_, _, _, _)
IsSubSeq(xs, ys, i, j) ==
    IF i > Len(xs) THEN TRUE
    ELSE IF j > Len(ys) THEN FALSE
    ELSE IF xs[i] = ys[j] THEN IsSubSeq(xs, ys, i + 1, j + 1)
    ELSE IsSubSeq(xs, ys, i, j + 1)

DescendingHeights(p) ==
    \A k \in 1..Len(p), l \in 1..Len(p) :
        k < l => index_height(p[k]) > index_height(p[l])

\* C7: for every pair of complete MMR indices ifrom < ito, folding the peaks
\* of MMR(ifrom) with consistency_proof(ifrom, ito) yields a list of roots
\* that is a sub-sequence of the peaks of MMR(ito), which are in descending
\* height, and verify_consistent_roots returns True.
C7_ConsistencyVerifies ==
    (res.op = "consistency" /\ res.ifrom < res.ito)
        => /\ IsSubSeq(res.roots, accumulator(store, res.ito), 1, 1)
           /\ DescendingHeights(peaks(res.ito))
           /\ res.ret = "True"

C7_Witness ==
    /\ res.op = "consistency"
    /\ res.ifrom < res.ito
    /\ Len(peaks(res.ifrom)) = 2
    /\ Len(res.roots) = 1
    /\ Len(peaks(res.ito)) = 3
    /\ res.ret = "True"

\* C10: verify_proof returns normally exactly when folding element with the
\* whole path yields wanted_root; otherwise it raises, and a root mismatch
\* is a RootMismatchError whose calculated_root is the folded root and whose
\* expected_root is wanted_root.
C10_VerifyProofOutcome ==
    res.op = "verify_proof" =>
        LET folded == included_root(res.leaf_index, res.element, res.path)
        IN  /\ (res.out.raised = "None") <=> (folded = res.wanted_root)
            /\ folded # res.wanted_root =>
                  /\ res.out.raised = "RootMismatchError"
                  /\ res.out.calculated_root = folded
                  /\ res.out.expected_root = res.wanted_root

C10_Witness ==
    /\ res.op = "verify_proof"
    /\ res.mode = "inner_root"
    /\ Len(res.path) >= 2
    /\ res.out.raised = "RootMismatchError"
    /\ res.out.calculated_root # res.out.expected_root

\* C30: verify_proof raises nothing but RootMismatchError: whenever folding
\* element with the whole path yields wanted_root, verify_inclusion_path
\* returns (True, len(path)), so neither VerificationError nor
\* PathLengthError is raised, and a genuine proof followed by one more
\* element is rejected with RootMismatchError.
C30_OnlyRootMismatch ==
    res.op = "verify_proof" =>
        LET folded == included_root(res.leaf_index, res.element, res.path)
            v == verify_inclusion_path(res.leaf_index, res.element, res.path,
                                       res.wanted_root)
        IN  /\ res.out.raised \in {"None", "RootMismatchError"}
            /\ folded = res.wanted_root => v = <<TRUE, Len(res.path)>>
            /\ res.mode = "extra" => res.out.raised = "RootMismatchError"

C30_Witness ==
    /\ res.op = "verify_proof"
    /\ res.mode = "extra"
    /\ Len(res.path) >= 3
    /\ verify_inclusion_path(res.leaf_index, res.element,
                             SubSeq(res.path, 1, Len(res.path) - 1),
                             res.wanted_root)[1]
    /\ res.out.raised = "RootMismatchError"

\* ------------------------------------------------- claims about patch sets
IsPow2(m) == m >= 1 /\ bit_count(m) = 1

\* C8: for every non-empty list of n patches, get_root_hash_of_patches
\* hashes each patch in order, pads the leaves with SHA-256("") up to the
\* next power of two >= n, appends them in order to an empty MMR, and
\* returns the node at index positions[-1] - 1, the last node of the store
\* and the single peak of that MMR.
C8_PatchRoot ==
    (pres.op = "root" /\ Len(pres.arg) >= 1) =>
        LET c == pres.call
            n == Len(pres.arg)
            m == Len(c.hashed_patches)
            end == Len(c.tree) - 1
        IN  /\ IsPow2(m) /\ m >= n /\ (m = 1 \/ m \div 2 < n)
            /\ \A k \in 1..m :
                  c.hashed_patches[k] =
                      IF k <= n THEN sha256(cbor_encode(pres.arg[k])) ELSE sha256(<<>>)
            /\ c.tree = add_leaves(<<>>, c.hashed_patches, 1, <<>>).store
            /\ leaf_count(end) = m
            /\ c.positions[Len(c.positions)] - 1 = end
            /\ c.ret = c.tree[end + 1]
            /\ peaks(end) = <<end>>

C8_Witness ==
    /\ pres.op = "root"
    /\ Len(pres.arg) = 3
    /\ Len(pres.call.hashed_patches) = 4
    /\ pres.call.hashed_patches[4] = sha256(<<>>)
    /\ pres.call.ret = hash_pospair64(7, pres.call.tree[3], pres.call.tree[6])

\* C9: get_signer_of_patchset(ps) returns a signer address only when
\* ps.header.root_hash equals the root computed from ps.patches; when they
\* differ the call aborts with an error before any signature recovery,
\* returns no address, and changes no state of ps.
C9_SignerOnlyOnMatchingRoot ==
    pres.op = "signer" =>
        LET computed == get_root_hash_of_patches(pres.before.patches).ret
        IN  /\ pres.ret # "None" => pres.before.header.root_hash = computed
            /\ pres.before.header.root_hash # computed =>
                  /\ pres.raised = "AssertionError"
                  /\ ~pres.recovered
                  /\ pres.ret = "None"
                  /\ ps = pres.before

C9_Witness ==
    /\ pres.op = "signer"
    /\ Len(pres.before.patches) = 3
    /\ pres.before.header.root_hash #
          get_root_hash_of_patches(pres.before.patches).ret
    /\ pres.before.signature.wellformed
    /\ pres.before.signature.message =
          encode_defunct(header_bytes(pres.before.header))
    /\ pres.raised = "AssertionError"
    /\ ps = pres.before


\* ------------------------------------------------- claims about the MMR store
\* The children of the interior node at mmr index i.
LeftChild(i) == i - Pow2(index_height(i))

RightChild(i) == i - 1

\* C11: after any sequence of add_leaf_hash calls on an empty FlatDB the
\* store is the canonical MMR of the appended leaves: its length is a
\* complete MMR size, the e-th appended leaf sits at index mmr_index(e), and
\* every interior node at mmr index i is the hash of i + 1, its left child
\* and its right child.
C11_StoreIsCanonical ==
    /\ Len(store) = mmr_index(Len(leaves))
    /\ Len(store) > 0 => IsComplete(Len(store) - 1)
    /\ \A e \in 0 .. Len(leaves) - 1 :
          /\ mmr_index(e) \in Nodes
          /\ index_height(mmr_index(e)) = 0
          /\ store[mmr_index(e) + 1] = leaves[e + 1]
    /\ \A i \in Nodes :
          index_height(i) > 0 =>
              store[i + 1] = hash_pospair64(i + 1, store[LeftChild(i) + 1],
                                            store[RightChild(i) + 1])

C11_Witness ==
    /\ Len(leaves) = 7
    /\ Len(store) = 11
    /\ leaves[6] # leaves[5]
    /\ store[10] = hash_pospair64(10, leaves[5], leaves[6])
    /\ store[7] = hash_pospair64(7, store[3], store[6])
    /\ res.op = "add_leaf_hash"

\* C12: add_leaf_hash is append-only: every index below the store length
\* before the call holds the same value after it and the length does not
\* decrease, so the accumulator of every earlier complete MMR keeps its
\* values over later appends.
C12_AppendOnly ==
    [][/\ Len(store') >= Len(store)
       /\ \A j \in 1 .. Len(store) : store'[j] = store[j]
       /\ \A ix \in Nodes :
             IsComplete(ix) => accumulator(store', ix) = accumulator(store, ix)]_vars

C12_Witness ==
    /\ res.op = "add_leaf_hash"
    /\ Len(leaves) = 4
    /\ Len(store) = 7
    /\ res.ret = 7
    /\ store[3] = hash_pospair64(3, leaves[1], leaves[2])


\* ------------------------------------------------- claims about the HAMT (2)
\* The six-bit selector of key at depth d.
ChunkAt(key, d) == HashState_chunk(HashState_skip(HashState_new(key), d))

\* Keys whose hashes agree at every trie level.
Collide(k1, k2) ==
    k1 # k2 /\ \A d \in 0 .. MAX_DEPTH - 1 : ChunkAt(k1, d) = ChunkAt(k2, d)

\* Key k is live in trie w together with a key it collides with.
InFallback(w, k) == k \in Live(w) /\ \E k2 \in Live(w) : Collide(k, k2)

\* C13: keys whose hashes collide at every trie level, stored in the
\* fallback collision list, are each retrievable by Trie.get with their own
\* value, and Trie.size counts each of them.
C13_FallbackKeysRetrievable ==
    \A w \in DOMAIN tries : \A k \in Keys :
        InFallback(w, k) =>
            /\ Trie_get(heap, tries[w], k) = Plain(last[w][k])
            /\ tries[w].size = Cardinality(Live(w))

\* C14: Trie.all(fn) calls fn exactly once for each live (key, value) entry
\* when fn always returns True, never on an empty trie, and makes no call
\* after the first one in which fn returns False; the order is that of the
\* trie's structure, whatever the hash caches hold.
C14_AllVisitsEachOnce ==
    \A w \in DOMAIN tries :
        LET full == Trie_all_fn(heap, tries[w], 0)
        IN  /\ Len(full) = Cardinality(Live(w))
            /\ {full[i] : i \in 1 .. Len(full)} = {<<k, last[w][k]>> : k \in Live(w)}
            /\ \A stop \in 1 .. Len(full) :
                  Trie_all_fn(heap, tries[w], stop) = SubSeq(full, 1, stop)
            /\ Trie_all_fn(CacheFree(heap), tries[w], 0) = full

C14_Witness ==
    /\ Cardinality(Live("t")) = 3
    /\ Len(Trie_all_fn(heap, tries["t"], 0)) = 3
    /\ Len(Trie_all_fn(heap, tries["t"], 1)) = 1
    /\ steps >= 3

\* C15: after any sequence of insert and delete calls Trie.has(k) returns
\* True exactly when k is a live key, for the keys that were inserted and for
\* one that never was.
C15_HasIsLive ==
    \A w \in DOMAIN tries : \A k \in Keys \cup {ProbeKey} :
        Trie_has(heap, tries[w], k) <=> k \in Live(w)

\* C16: Trie.hash() changes nothing but hash caches: bitmaps, entries, size
\* and the result of every get are the same before and after the call, and
\* a second hash() right after it returns the same value.
C16_HashChangesOnlyCaches ==
    [][\A w \in TrieNames :
          Hash(w) =>
              /\ CacheFree(heap') = CacheFree(heap)
              /\ tries' = tries
              /\ \A v \in DOMAIN tries : \A k \in Keys :
                    Trie_get(heap', tries'[v], k) = Trie_get(heap, tries[v], k)
              /\ Trie_hash(heap', tries'[w]) = Trie_hash(heap, tries[w])]_vars

C16_Witness ==
    /\ target = "none"
    /\ steps >= 3
    /\ Cardinality(Live("t")) >= 2
    /\ Cardinality(DOMAIN heap) >= 3
    /\ \A n \in NodesUnder(heap, tries["t"].root) : heap[n].hash # NoHash

\* No node of the trie holds a memoised hash, as in every trie made by
\* insert and delete calls alone.
NoCaches(h, trie) == \A n \in NodesUnder(h, trie.root) : h[n].hash = NoHash

\* C17: for every trie t, Trie.from_cbor_array(t.to_cbor_array()) returns a
\* trie with the same get result for every key, no inherited hash cache, a
\* size recomputed by walking the leaves equal to t.size, and the hash of
\* t's entries, which is t.hash() for t made by insert and delete calls.
C17_ArrayRoundTrip ==
    \A w \in DOMAIN tries :
        LET t == tries[w]
            r == Trie_from_cbor_array(heap, Trie_to_cbor_array(heap, t))
        IN  /\ \A k \in Keys \cup {ProbeKey} :
                  Trie_get(r.heap, r.trie, k) = Trie_get(heap, t, k)
            /\ NoCaches(r.heap, r.trie)
            /\ r.trie.size = t.size
            /\ r.trie.root \notin DOMAIN heap
            /\ Trie_hash(r.heap, r.trie) = Trie_hash(CacheFree(heap), t)
            /\ NoCaches(heap, t) => Trie_hash(r.heap, r.trie) = Trie_hash(heap, t)

C17_Witness ==
    /\ Cardinality(Live("t")) = 3
    /\ NoCaches(heap, tries["t"])
    /\ Cardinality(NodesUnder(heap, tries["t"].root)) >= 3
    /\ Trie_from_cbor_array(heap, Trie_to_cbor_array(heap, tries["t"])).trie.size = 3

\* With a memoised hash left stale by an overwrite the round trip's hash is
\* not t.hash().
C17_SameHashAlways ==
    \A w \in DOMAIN tries :
        LET r == Trie_from_cbor_array(heap, Trie_to_cbor_array(heap, tries[w]))
        IN  Trie_hash(r.heap, r.trie) = Trie_hash(heap, tries[w])

\* ------------------------------------------------- claims about the MMR (2)
\* C18: for every node index i and every complete MMR index ix >=
\* complete_mmr(i), included_root over node(i) and the node values along
\* inclusion_proof_path(i, ix) equals exactly one accumulator peak of
\* MMR(ix), the one at accumulator_index(leaf_count(ix), len(path) +
\* index_height(i)); with an empty path it is node(i) itself.
C18_IncludedRootIsThePeak ==
    (res.op = "inclusion" /\ IsComplete(res.ix) /\ res.ix >= complete_mmr(res.i))
        => LET acc == accumulator(store, res.ix)
           IN  /\ res.iacc \in 0 .. Len(acc) - 1
               /\ \A j \in 0 .. Len(acc) - 1 : (acc[j + 1] = res.root) <=> (j = res.iacc)
               /\ Len(res.path) = 0 => res.root = FlatDB_get(store, res.i)

C18_Witness ==
    /\ res.op = "inclusion"
    /\ IsComplete(res.ix) /\ res.ix >= complete_mmr(res.i)
    /\ Len(peaks(res.ix)) = 3
    /\ index_height(res.i) = 0
    /\ Len(res.path) = 1
    /\ res.iacc = 1
    /\ res.root = accumulator(store, res.ix)[2]

IsPrefix(xs, ys) == Len(xs) <= Len(ys) /\ SubSeq(ys, 1, Len(xs)) = xs

\* C19: each witness is a prefix of all future witnesses for the same node:
\* for every node i and complete MMR indices c0 < c1 containing i,
\* inclusion_proof_path(i, c0) is a prefix of inclusion_proof_path(i, c1),
\* which is the old path followed by inclusion_proof_path(r, c1), r the
\* parent of the old path's last element, or i when the old path is empty.
C19_WitnessIsPrefix ==
    (res.op = "witness" /\ res.c0 < res.c1 /\ res.c0 >= complete_mmr(res.i))
        => /\ IsPrefix(res.old, res.w)
           /\ res.wupdated = res.w

C19_Witness ==
    /\ res.op = "witness"
    /\ res.c0 < res.c1 /\ res.c0 >= complete_mmr(res.i)
    /\ Len(res.old) = 1
    /\ Len(res.w) = 2
    /\ res.ioldroot # res.i
    /\ index_height(res.old[1] + 1) > index_height(res.old[1])
    /\ res.wupdated = res.w

\* ------------------------------------------------- claims about patch sets (2)
\* C20: append order is part of the commitment: two patch lists of the same
\* length that differ in the order of two distinct patches yield different
\* roots from get_root_hash_of_patches, and the same list the same root.
C20_OrderIsCommitted ==
    pres.op = "reorder" =>
        /\ pres.a[pres.i] # pres.a[pres.j] => pres.root_a # pres.root_b
        /\ pres.a = pres.b => pres.root_a = pres.root_b
        /\ pres.again = pres.root_a

C20_Witness ==
    /\ pres.op = "reorder"
    /\ Len(pres.a) = 3
    /\ pres.i = 1 /\ pres.j = 2
    /\ pres.a[1] # pres.a[2]
    /\ pres.root_a # pres.root_b

\* C28: after any sequence of insert and delete calls the node structure
\* (bitmaps, entry order, leaf or branch) and hash() of the trie are those of
\* a new trie into which only the surviving pairs were inserted (here in
\* ascending key order), and once every key is deleted hash() is the hash of
\* a new empty trie.  hash() is taken on a cache-free copy: the calls the
\* claim speaks of memoise nothing.
C28_HistoryIndependent ==
    \A w \in DOMAIN tries :
        LET b == BuiltAscending(last[w])
            empty == Trie_new(<<>>)
        IN  /\ Trie_to_cbor_array(heap, tries[w]) = Trie_to_cbor_array(b.heap, b.trie)
            /\ Trie_hash(CacheFree(heap), tries[w]) = Trie_hash(b.heap, b.trie)
            /\ Live(w) = {} =>
                   Trie_hash(CacheFree(heap), tries[w]) = Trie_hash(empty.heap, empty.trie)

\* The slot of the entry at position pos (from 0): the bit of the bitmap
\* with pos set bits below it.
SlotAt(bitmap, pos) == CHOOSE b \in bitmap : count_ones(bitmap, b) = pos

\* The keys of the leaves under node n.
RECURSIVE KeysUnder(_, _)
KeysUnder(h, n) ==
    UNION {IF h[n].entries[i].node = None THEN {h[n].entries[i].key}
           ELSE KeysUnder(h, h[n].entries[i].node) : i \in 1 .. Len(h[n].entries)}

IsLeaf(e) == e.key # None /\ e.node = None

IsBranch(e) == e.key = None /\ e.value = None /\ e.node # None

\* Node n, d steps below the root, and the nodes under it are well formed.
RECURSIVE WellFormed(_, _, _)
WellFormed(h, n, d) ==
    LET node == h[n]
    IN  /\ \A i \in 1 .. Len(node.entries) : IsLeaf(node.entries[i]) \/ IsBranch(node.entries[i])
        /\ d < MAX_DEPTH =>
              /\ Len(node.entries) = Cardinality(node.bitmap)
              /\ \A i \in 1 .. Len(node.entries) :
                    LET e == node.entries[i]
                        slot == SlotAt(node.bitmap, i - 1)
                    IN  IF e.node = None THEN ChunkAt(e.key, d) = slot
                        ELSE /\ \A k \in KeysUnder(h, e.node) : ChunkAt(k, d) = slot
                             /\ Len(h[e.node].entries) > 0
                             /\ ~(Len(h[e.node].entries) = 1 /\ IsLeaf(h[e.node].entries[1]))
                             /\ WellFormed(h, e.node, d + 1)

\* C29: in every state reached by insert and delete calls, every node above
\* the maximum depth has as many entries as its bitmap has bits, in
\* ascending slot order; every entry is a leaf or a branch; no branch points
\* to an empty node or to a node whose only entry is a leaf; and no delete
\* raises 'pos out of range'.
C29_NodesWellFormed ==
    \A w \in DOMAIN tries :
        /\ WellFormed(heap, tries[w].root, 0)
        /\ \A k \in Keys \cup {ProbeKey} : ~Trie_delete(heap, tries[w], k).raised

\* Four calls, the last an insert or delete, have left a chain of branches
\* down to a collision list beside a trie that lost or overwrote a key.
C29_Witness ==
    /\ steps = MaxSteps /\ target = "t" /\ ~pure["t"]
    /\ tries["t"].size = 2
    /\ Cardinality(NodesUnder(heap, tries["t"].root)) > MAX_DEPTH
    /\ NoCaches(heap, tries["t"])

\* ------------------------------------------------- claims about the cbor types
\* C21: a PatchPath that was constructed obeys the invariant of its type: a
\* Manifest path has no object_id, account_addr or tag_name; an Accounts
\* path has an address and no object_id or tag_name; a Listings, Orders or
\* Inventory path has an integer object_id; a Tags path has a tag name.
C21_PathInvariants ==
    obj.op = "PatchPath" /\ obj.raised = "None" =>
        LET p == obj.self
        IN  /\ p.type = MANIFEST =>
                   p.object_id = PyNone /\ p.account_addr = PyNone /\ p.tag_name = PyNone
            /\ p.type = ACCOUNT =>
                   p.account_addr # PyNone /\ p.object_id = PyNone /\ p.tag_name = PyNone
            /\ p.type \in {LISTING, ORDER, INVENTORY} => isinstance_int(p.object_id)
            /\ p.type = TAG => p.tag_name # PyNone

\* C22: for every constructed PatchPath p, to_cbor_list() is the type tag,
\* then the id when the type has one, then the fields, and from_cbor of that
\* list returns a path with the same type, id and fields.
C22_PathRoundTrip ==
    obj.op = "PatchPath.from_cbor" =>
        LET p == obj.p
            id == IF p.type = ACCOUNT THEN <<EthereumAddress_bytes(p.account_addr)>>
                  ELSE IF p.type \in {LISTING, ORDER, INVENTORY} THEN <<p.object_id>>
                  ELSE IF p.type = TAG THEN <<p.tag_name>>
                  ELSE <<>>
        IN  /\ obj.data = <<PyStr(p.type)>> \o id \o p.fields
            /\ obj.raised = "None"
            /\ obj.self.type = p.type
            /\ obj.self.object_id = p.object_id
            /\ obj.self.account_addr = p.account_addr
            /\ obj.self.tag_name = p.tag_name
            /\ obj.self.fields = p.fields

\* C26: every Uint256 that was constructed, from an int, a Decimal, a
\* decimal or 0x string, bytes or another Uint256, holds a value v with
\* 0 <= v < 2^256 (the width is UintBytes here); a negative or overflowing
\* int is rejected.
C26_Uint256InRange ==
    obj.op \in {"Uint256", "Uint256.from_bytes", "Uint256.from_cbor"} =>
        /\ obj.raised = "None" => 0 <= obj.self[2] /\ obj.self[2] < UintLimit
        /\ type_of(obj.value) = "int" /\ (obj.value[2] < 0 \/ obj.value[2] >= UintLimit)
              => obj.raised = "ValueError"

\* C23: every PatchSetHeader that was constructed has KeyCardNonce > 0 and a
\* RootHash of exactly 32 bytes, and every SignedPatchSet that was
\* constructed, directly or by from_cbor_dict, has a Signature of exactly 65
\* bytes.
C23_HeaderAndSignatureSizes ==
    /\ obj.op = "PatchSetHeader" /\ obj.raised = "None" =>
           obj.self.key_card_nonce > 0 /\ Len(obj.self.root_hash[2]) = HashSize
    /\ obj.op \in {"SignedPatchSet", "SignedPatchSet.from_cbor_dict"} /\ obj.raised = "None" =>
           Len(obj.self.signature[2]) = SignatureSize

\* C24: SignedPatchSet(...) and SignedPatchSet.from_cbor_dict(...) with an
\* empty patch list or an empty signature raise an error and make no object.
C24_NoEmptyPatchSet ==
    obj.op \in {"SignedPatchSet", "SignedPatchSet.from_cbor_dict"}
    /\ (Len(obj.patches) = 0 \/ Len(obj.signature[2]) = 0) =>
        obj.raised # "None" /\ obj.self = NoObject

\* A decoded set with a sound header and one sound patch, and no signature.
C24_Witness ==
    /\ obj.op = "SignedPatchSet.from_cbor_dict"
    /\ obj.header.KeyCardNonce = 1 /\ obj.header.ShopID = PyInt(1)
    /\ Len(obj.header.RootHash[2]) = HashSize
    /\ Len(obj.patches) = 1 /\ Patch_from_dict(obj.patches[1]).raised = "None"
    /\ Len(obj.signature[2]) = 0
    /\ obj.raised = "ValueError" /\ obj.self = NoObject

\* C25: every Order that was constructed, directly or by from_cbor_dict,
\* obeys the invariants of its state: Committed, Unpaid and Paid have
\* ChosenPayee, ChosenCurrency and an invoice or shipping address; Unpaid and
\* Paid have PaymentDetails; Paid has TxDetails with a BlockHash; Canceled
\* has CanceledAt.
C25_OrderStateInvariants ==
    obj.op \in {"Order", "Order.from_cbor_dict"} /\ obj.raised = "None" =>
        LET o == obj.self
        IN  /\ o.state \in {COMMITTED, UNPAID, PAID} =>
                   /\ o.chosen_payee # PyNone
                   /\ o.chosen_currency # PyNone
                   /\ (o.invoice_address # PyNone \/ o.shipping_address # PyNone)
            /\ o.state \in {UNPAID, PAID} => o.payment_details # PyNone
            /\ o.state = PAID =>
                   o.tx_details # PyNone /\ Len(o.tx_details[2].block_hash[2]) = HashSize
            /\ o.state = CANCELED => o.canceled_at # PyNone

\* A paid order decoded with every member it needs, and a canceled order
\* without CanceledAt turned down.
C25_Witness ==
    /\ obj.op = "Order.from_cbor_dict"
    /\ \/ /\ obj.d.State = PAID /\ obj.raised = "None"
          /\ obj.self.tx_details # PyNone /\ obj.self.payment_details # PyNone
          /\ obj.self.invoice_address = PyNone /\ obj.self.shipping_address # PyNone
       \/ /\ obj.d.State = CANCELED /\ "CanceledAt" \notin DOMAIN obj.d
          /\ obj.raised = "ValueError" /\ DOMAIN obj.d = {"ID", "Items", "State"}
          /\ obj.d.Items[1].ListingID = 1

\* C27: every ListingStockStatus that was constructed or decoded carries
\* exactly one of InStock and ExpectedInStockBy.
C27_ExactlyOneStockField ==
    obj.op \in {"ListingStockStatus", "ListingStockStatus.from_cbor_dict"}
    /\ obj.raised = "None" =>
        (obj.self.in_stock # PyNone) # (obj.self.expected_in_stock_by # PyNone)

=============================================================================
